---- MODULE Spec2Model ----
(***************************************************************************)
(* A model of the blog test-automation suite: the API client facade        *)
(* (utils/api_client.py), the pytest fixture graph (tests/conftest.py) and  *)
(* the test-data builders (utils/data_builder.py).                         *)
(*                                                                         *)
(* JSON values are tagged records [t, v]; mapping keys are tuples of       *)
(* one-character strings so that key.lower() and the substring test of     *)
(* the log masking are computed, not tabulated.                            *)
(***************************************************************************)
EXTENDS Integers, Sequences, FiniteSets, TLC

VARIABLES
    creds,          \* settings.existing_user_creds: [email, password]
    headers,        \* api.session.headers (the default headers)
    cookies,        \* api.session.cookies (names in the jar)
    lastCall,       \* the current test's most recent _request call: arguments, outcome, result, log
    lastOp,         \* the current test's most recent client operation and how it ended
    pc,             \* the worker's phase: idle, call, teardown, ended
    fx,             \* the composite fixture the current test requested
    outcome,        \* the current test's outcome so far
    active,         \* finalizers registered for the current test, innermost last
    handed,         \* the value the requested fixture handed to the test
    localStorage,   \* localStorage['accessToken'] of the test's page
    setupLogin,     \* how the login of this test's fixture setup ended
    created,        \* success flags of the create_post calls of this test's setup
    bodyOps,        \* client operations the test body has made so far
    test_user,      \* api._test_user["id"], an attribute set on the shared client
    testsRun,       \* tests started in this worker
    \* The lifecycle of the fixtures, step by step.
    run,            \* the pytest session: running, finishing, finished
    browser,        \* the session-scoped browser: none, open, closed
    launches,       \* successful chromium.launch() calls
    api_client,     \* the session-scoped client of the api fixture: none, built, cleared
    constructions,  \* BlogAPIClient() calls
    contexts,       \* open browser contexts, named by the test that created them
    pages,          \* open pages, named by the test that created them
    item,           \* the current test item: [n, kind, phase, plan, fin]
    trace,          \* what the fixtures of the current item have done, in order
    \* The builders of utils/data_builder.py.
    subject,        \* the builder under construction: none, post, block
    post_builder,   \* PostBuilder._data
    block_builder,  \* BlockBuilder._data
    returned,       \* what PostBuilder.build() handed out: the reference and its value then
    block_built,    \* what BlockBuilder.build() returned, and whether it filled the content
    adds,           \* for each block of the post, the call that added it: [op, y]
    calls,          \* the builder methods called so far, by name
    quick,          \* the last create_quick_post call: its arguments and what it returned
    user_builder,   \* UserBuilder._data
    comment_builder,\* CommentBuilder._data
    \* The failure-observation hook of tests/conftest.py.
    hook_item,      \* the item pytest is reporting on: its phase, its page, its call report
    hook,           \* the last call of pytest_runtest_makereport: the report made, how it ended
    artifacts,      \* the files the hook has written: screenshots and renamed videos
    \* The boolean wait helpers of core/base_page.py and pages/login_page.py.
    ui,             \* the login page: opened, closed, when the toast and the redirect come
    clock,          \* milliseconds since the login form was submitted
    waited          \* the last call of a wait helper: how the wait ended, what it answered

workerVars == <<creds, headers, cookies, lastCall, lastOp, pc, fx, outcome, active,
                handed, localStorage, setupLogin, created, bodyOps, test_user, testsRun>>
sessionVars == <<run, browser, launches, api_client, constructions, contexts, pages, item,
                 trace>>
builderVars == <<subject, post_builder, block_builder, returned, block_built, adds,
                 calls, quick, user_builder, comment_builder>>
hookVars == <<hook_item, hook, artifacts>>
waitVars == <<ui, clock, waited>>

vars == <<workerVars, sessionVars, builderVars, hookVars, waitVars>>

(***************************************************************************)
(* Bounds of the model.                                                    *)
(***************************************************************************)
MaxDepth == 2
MaxTests == 2
MaxBodyOps == 2
MaxCalls == 3
MaxClock == 12000

(***************************************************************************)
(* JSON values and Python helpers.                                         *)
(***************************************************************************)
Str(s) == [t |-> "str", v |-> s]
Num(n) == [t |-> "num", v |-> n]
Dict(f) == [t |-> "dict", v |-> f]
List(s) == [t |-> "list", v |-> s]
None == [t |-> "none", v |-> "None"]
Unset == [t |-> "unset", v |-> "unset"]
EmptyDict == Dict(<<>>)

Range(s) == {s[i] : i \in DOMAIN s}

k_password == <<"p", "a", "s", "s", "w", "o", "r", "d">>
k_Password == <<"P", "a", "s", "s", "w", "o", "r", "d">>
k_PASSWORD == <<"P", "A", "S", "S", "W", "O", "R", "D">>
k_name == <<"n", "a", "m", "e">>
k_user == <<"u", "s", "e", "r">>
k_data == <<"d", "a", "t", "a">>
k_accessToken == <<"a", "c", "c", "e", "s", "s", "T", "o", "k", "e", "n">>
k_id == <<"i", "d">>
k_username == <<"u", "s", "e", "r", "n", "a", "m", "e">>
k_message == <<"m", "e", "s", "s", "a", "g", "e">>
k_emailOrUsername == <<"e", "m", "a", "i", "l", "O", "r", "U", "s", "e", "r", "n", "a", "m", "e">>
k_title == <<"t", "i", "t", "l", "e">>
k_authorId == <<"a", "u", "t", "h", "o", "r", "I", "d">>

\* dict.get(key, default); raises AttributeError on a non-mapping receiver,
\* which callers test with IsDict first.
IsDict(x) == x.t = "dict"
Get(d, key, default) == IF key \in DOMAIN d.v THEN d.v[key] ELSE default

\* Python truthiness of a JSON value.
Truthy(x) ==
    CASE x.t = "none" -> FALSE
      [] x.t = "str" -> x.v # ""
      [] x.t = "num" -> x.v # 0
      [] x.t = "dict" -> DOMAIN x.v # {}
      [] x.t = "list" -> Len(x.v) > 0
      [] OTHER -> TRUE

\* str(x) as an f-string interpolates it.
PyStr(x) == IF x.t = "none" THEN "None" ELSE x.v

UpperToLower ==
    ("A" :> "a") @@ ("B" :> "b") @@ ("C" :> "c") @@ ("D" :> "d") @@ ("E" :> "e") @@
    ("F" :> "f") @@ ("G" :> "g") @@ ("H" :> "h") @@ ("I" :> "i") @@ ("J" :> "j") @@
    ("K" :> "k") @@ ("L" :> "l") @@ ("M" :> "m") @@ ("N" :> "n") @@ ("O" :> "o") @@
    ("P" :> "p") @@ ("Q" :> "q") @@ ("R" :> "r") @@ ("S" :> "s") @@ ("T" :> "t") @@
    ("U" :> "u") @@ ("V" :> "v") @@ ("W" :> "w") @@ ("X" :> "x") @@ ("Y" :> "y") @@
    ("Z" :> "z")

\* str.lower()
lower(s) == [i \in DOMAIN s |-> IF s[i] \in DOMAIN UpperToLower THEN UpperToLower[s[i]] ELSE s[i]]

\* Python's `sub in s` on strings.
Contains(sub, s) ==
    \E i \in 0..(Len(s) - Len(sub)) : SubSeq(s, i + 1, i + Len(sub)) = sub

(***************************************************************************)
(* BaseAPIClient._mask_sensitive_data                                      *)
(***************************************************************************)
MASK == "********"

sensitive_keys ==
    { <<"p", "a", "s", "s", "w", "o", "r", "d">>,
      <<"s", "e", "c", "r", "e", "t">>,
      <<"t", "o", "k", "e", "n">>,
      <<"a", "c", "c", "e", "s", "s", "T", "o", "k", "e", "n">>,
      <<"r", "e", "f", "r", "e", "s", "h", "T", "o", "k", "e", "n">>,
      <<"k", "e", "y">>,
      <<"c", "r", "e", "d", "e", "n", "t", "i", "a", "l">>,
      <<"p", "a", "s", "s">>,
      <<"p", "w", "d">>,
      <<"a", "p", "i", "_", "k", "e", "y">>,
      <<"a", "p", "i", "K", "e", "y">> }

\* The masking test with the key compared as written, not lowercased.
is_sensitive_exact_case(key) == \E sensitive \in sensitive_keys : Contains(sensitive, key)

\* any(sensitive in key.lower() for sensitive in sensitive_keys)
is_sensitive(key) == \E sensitive \in sensitive_keys : Contains(sensitive, lower(key))

RECURSIVE _mask_sensitive_data(_)
_mask_sensitive_data(data) ==
    IF ~IsDict(data) THEN data
    ELSE Dict([key \in DOMAIN data.v |->
                  IF is_sensitive(key) THEN Str(MASK)
                  ELSE IF IsDict(data.v[key]) THEN _mask_sensitive_data(data.v[key])
                  ELSE data.v[key]])

\* A masking that writes the mask into the mapping it was given.
after_mask_in_place(data) == _mask_sensitive_data(data)

\* The mapping passed to _mask_sensitive_data, after the call: masked = data.copy(),
\* and every assignment, at each level of the recursion, is to the copy.
after_mask(data) == data

(***************************************************************************)
(* The text of a log line: a sequence of tokens.  A formatted value is its *)
(* Python repr: braces, keys, colons, commas and leaves in order.          *)
(***************************************************************************)
Punct(p) == [t |-> "punct", v |-> p]
Key(k) == [t |-> "key", v |-> k]

RECURSIVE SetToSeq(_)
SetToSeq(S) == IF S = {} THEN <<>> ELSE LET x == CHOOSE y \in S : TRUE IN <<x>> \o SetToSeq(S \ {x})

RECURSIVE Repr(_)
RECURSIVE ReprItems(_, _)
RECURSIVE ReprElems(_)
Repr(x) ==
    CASE x.t = "dict" -> <<Punct("{")>> \o ReprItems(x.v, SetToSeq(DOMAIN x.v)) \o <<Punct("}")>>
      [] x.t = "list" -> <<Punct("[")>> \o ReprElems(x.v) \o <<Punct("]")>>
      [] OTHER -> <<x>>
ReprItems(f, ks) ==
    IF ks = <<>> THEN <<>>
    ELSE <<Key(Head(ks)), Punct(":")>> \o Repr(f[Head(ks)]) \o <<Punct(",")>> \o ReprItems(f, Tail(ks))
ReprElems(s) ==
    IF s = <<>> THEN <<>> ELSE Repr(Head(s)) \o <<Punct(",")>> \o ReprElems(Tail(s))

LogLine(level, prefix, text) == [level |-> level, msg |-> <<Punct(prefix)>> \o text]

(***************************************************************************)
(* The transport (requests.Session.request) is external: an outcome is a   *)
(* response with a status code, a body and cookies to set, or an exception.*)
(***************************************************************************)
Response(status, is_json, body, set_cookies) ==
    [kind |-> "response", status_code |-> status, is_json |-> is_json, body |-> body,
     set_cookies |-> set_cookies, exc |-> "none"]
Raises(exc) ==
    [kind |-> "raise", status_code |-> 0, is_json |-> FALSE, body |-> Str(""),
     set_cookies |-> {}, exc |-> exc]

TransportErrors == {"Timeout", "ConnectionError"}

\* requests.Response.ok: raise_for_status() raises for 400 <= status < 600 only.
ok(status_code) == ~(400 <= status_code /\ status_code < 600)

NoEnvelope == [status_code |-> 0, data |-> None, success |-> FALSE]

\* The handler that swallows the transport's exception and answers a failed envelope.
_request_except_swallow(log, e) ==
    [ret |-> "envelope", envelope |-> NoEnvelope, exc |-> "none",
     log |-> log]

\* except Exception as e: logger.error(...); raise
_request_except(log, e) ==
    [ret |-> "raised", envelope |-> NoEnvelope, exc |-> e,
     log |-> Append(log, LogLine("ERROR", "API Request Failed:", <<Str(e)>>))]

\* response.json(), or response.text when the body does not parse.
response_data(out) == IF out.is_json THEN out.body ELSE Str(PyStr(out.body))

\* log_data = self._mask_sensitive_data(data) if isinstance(data, dict) else data
response_log_data(data) == IF IsDict(data) THEN _mask_sensitive_data(data) ELSE data

\* The try body of _request once the transport has answered.
_request_respond(log, out) ==
    [ret |-> "envelope",
     envelope |-> [status_code |-> out.status_code,
                   data |-> after_mask(response_data(out)),
                   success |-> ok(out.status_code)],
     exc |-> "none",
     log |-> log \o << LogLine("INFO", "Response:", <<Num(out.status_code)>>),
                       LogLine("DEBUG", "Response Data:",
                               Repr(response_log_data(response_data(out)))) >>]

\* The log lines written before the transport is called.
_request_log(method, endpoint, has_json, json) ==
    IF has_json
    THEN << LogLine("INFO", method, <<Str(endpoint)>>),
            LogLine("DEBUG", "Request Body:", Repr(_mask_sensitive_data(json))) >>
    ELSE << LogLine("INFO", method, <<Str(endpoint)>> ) >>

\* try: ... except Exception
_request_try(log, out) ==
    IF out.kind = "response" THEN _request_respond(log, out) ELSE _request_except(log, out.exc)

\* The call as the model records it: r is how it ended, `json` the body the caller
\* passed, `sent` what session.request received (the same object, after the masking
\* for the log), `jar` the cookie jar afterwards.
_request_record(jar, method, endpoint, has_json, json, out, r) ==
    [ret |-> r.ret, envelope |-> r.envelope, exc |-> r.exc, log |-> r.log,
     method |-> method, endpoint |-> endpoint, has_json |-> has_json,
     json |-> IF has_json THEN json ELSE None,
     sent |-> IF has_json THEN after_mask(json) ELSE None,
     out |-> out,
     jar |-> IF out.kind = "response" THEN jar \cup out.set_cookies ELSE jar]

\* BaseAPIClient._request(method, endpoint, json=...) against transport outcome `out`.
_request(jar, method, endpoint, has_json, json, out) ==
    _request_record(jar, method, endpoint, has_json, json, out,
                    _request_try(_request_log(method, endpoint, has_json, json), out))

NoCall ==
    [ret |-> "none", envelope |-> NoEnvelope, exc |-> "none", log |-> <<>>,
     method |-> "none", endpoint |-> "none", has_json |-> FALSE, json |-> None,
     sent |-> None,
     out |-> Raises("none"), jar |-> {}]

(***************************************************************************)
(* AuthAPI and BlogAPIClient on one client: cl = [headers, cookies, call]. *)
(* Each operation answers [cl, ret, envelope, exc]: the client afterwards, *)
(* "returned" or "raised", and the envelope or the exception.  An          *)
(* operation is written as the request it makes and what it does with the  *)
(* result r of that request.                                               *)
(***************************************************************************)
Client(h, c, call) == [headers |-> h, cookies |-> c, call |-> call]
Result(cl, ret, envelope, exc) == [cl |-> cl, ret |-> ret, envelope |-> envelope, exc |-> exc]

HasAuthorization(h) == "Authorization" \in DOMAIN h
Bearer(access_token) == <<"Bearer", PyStr(access_token)>>

\* A login that never installs the token it was given.
login_install_token_never(h, access_token) == h

\* A login that, given no token, removes the Authorization header an earlier login left.
login_install_token_or_clear(h, access_token) ==
    IF Truthy(access_token)
    THEN [n \in DOMAIN h \cup {"Authorization"} |->
             IF n = "Authorization" THEN Bearer(access_token) ELSE h[n]]
    ELSE [n \in DOMAIN h \ {"Authorization"} |-> h[n]]

\* if access_token: self.client.session.headers["Authorization"] = f"Bearer {access_token}"
login_install_token(h, access_token) ==
    IF Truthy(access_token)
    THEN [n \in DOMAIN h \cup {"Authorization"} |->
             IF n = "Authorization" THEN Bearer(access_token) ELSE h[n]]
    ELSE h

\* APIResponse.json: the data when it is a mapping, else {}.
json(envelope) == IF IsDict(envelope.data) THEN envelope.data ELSE EmptyDict

\* response.json.get("data", {})
data_of(envelope) == Get(json(envelope), k_data, EmptyDict)

\* AuthAPI.login once client.post has ended as r.
login_after(cl, r) ==
    IF r.ret = "raised"
    THEN Result(Client(cl.headers, r.jar, r), "raised", NoEnvelope, r.exc)
    ELSE IF ~r.envelope.success
    THEN Result(Client(cl.headers, r.jar, r), "returned", r.envelope, "none")
    ELSE IF ~IsDict(data_of(r.envelope))
    THEN Result(Client(cl.headers, r.jar, r), "raised", NoEnvelope, "AttributeError")
    ELSE Result(Client(login_install_token(cl.headers,
                                           Get(data_of(r.envelope), k_accessToken, None)),
                       r.jar, r),
                "returned", r.envelope, "none")

\* AuthAPI.login(email_or_username, password)
login(cl, email_or_username, password, out) ==
    login_after(cl, _request(cl.cookies, "POST", "auth/login", TRUE,
                             Dict((k_emailOrUsername :> Str(email_or_username))
                                    @@ (k_password :> Str(password))),
                             out))

\* self.client.session.headers.pop("Authorization", None)
pop_authorization(h) == [n \in DOMAIN h \ {"Authorization"} |-> h[n]]

\* AuthAPI.logout once client.post has ended as r.
logout_after(cl, r) ==
    IF r.ret = "raised"
    THEN Result(Client(cl.headers, r.jar, r), "raised", NoEnvelope, r.exc)
    ELSE Result(Client(pop_authorization(cl.headers), r.jar, r), "returned", r.envelope, "none")

\* AuthAPI.logout()
logout(cl, out) == logout_after(cl, _request(cl.cookies, "POST", "auth/logout", FALSE, None, out))

\* A clear_session that clears one part of the session per call: the cookie jar
\* first, the Authorization header once the jar is empty.
clear_session_by_parts(cl) ==
    IF cl.cookies # {} THEN Client(cl.headers, {}, cl.call)
    ELSE Client([n \in DOMAIN cl.headers \ {"Authorization"} |-> cl.headers[n]], {}, cl.call)

\* BlogAPIClient.clear_session(): self.session.cookies.clear()
clear_session(cl) == Client(cl.headers, {}, cl.call)

\* PostsAPI.create_post once client.post has ended as r.
create_post_after(cl, r) ==
    Result(Client(cl.headers, r.jar, r), IF r.ret = "raised" THEN "raised" ELSE "returned",
           r.envelope, r.exc)

\* PostsAPI.create_post(post_data)
create_post(cl, post_data, out) ==
    create_post_after(cl, _request(cl.cookies, "POST", "blog-posts", TRUE, post_data, out))

Op(name, ret) == [op |-> name, ret |-> ret]

(***************************************************************************)
(* The fixtures of tests/conftest.py.  A setup answers                     *)
(*   [cl, result, login, value, finalizers, test_user, created, storage]:  *)
(* result is "ok" (the fixture yielded or returned), "skipped"             *)
(* (pytest.skip) or "failed" (pytest.fail, a failed assert or any other    *)
(* exception: pytest reports the setup phase as failed).  st is the state  *)
(* before, [cl, test_user, storage]; l is how the fixture's login ended.   *)
(***************************************************************************)
\* What a fixture hands to the test: the client ("api"), the session record of
\* auth_user ("session"), one post ("post") or the list of posts ("posts").
NoSession == [email |-> "", password |-> "", name |-> None, id |-> None, access_token |-> None]
Handed(kind, session, posts) == [kind |-> kind, session |-> session, posts |-> posts]
NothingHanded == Handed("none", NoSession, <<>>)
HandedApi == Handed("api", NoSession, <<>>)

Setup(cl, result, login_ended, value, finalizers, user, posts, storage) ==
    [cl |-> cl, result |-> result, login |-> login_ended, value |-> value,
     finalizers |-> finalizers, test_user |-> user, created |-> posts, storage |-> storage]

\* The setup ends before the fixture yields: skipped or failed, nothing handed.
Stopped(st, cl, result, login_ended) ==
    Setup(cl, result, login_ended, NothingHanded, <<>>, st.test_user, <<>>, st.storage)

\* settings.existing_user_creds.is_valid (config/settings.py)
is_valid(c) == c.email # "" /\ c.password # ""

\* A login check that skips the test where the fixture fails it.
api_as_user_login_check_skips(success) == IF ~success THEN "skipped" ELSE "ok"

\* if not login_response.success: pytest.fail(...)
api_as_user_login_check(success) == IF ~success THEN "failed" ELSE "ok"

\* login_response.json.get("data", {}).get("user", {})
user_of(envelope) == Get(data_of(envelope), k_user, EmptyDict)

\* api_as_user from its login to its yield.
api_as_user_logged(st, l) ==
    IF l.ret = "raised" THEN Stopped(st, l.cl, "failed", "raised")
    ELSE IF api_as_user_login_check(l.envelope.success) # "ok"
    THEN Stopped(st, l.cl, api_as_user_login_check(l.envelope.success), "failed")
    ELSE IF ~IsDict(user_of(l.envelope)) THEN Stopped(st, l.cl, "failed", "succeeded")
    ELSE Setup(l.cl, "ok", "succeeded", HandedApi, <<"api_as_user">>,
               Get(user_of(l.envelope), k_id, None), <<>>, st.storage)

\* api_as_user, up to its yield.
api_as_user(st, c, out) ==
    IF c.email = "" \/ c.password = ""
    THEN Stopped(st, st.cl, "skipped", "none")
    ELSE api_as_user_logged(st, login(st.cl, c.email, c.password, out))

\* existing_user_api from its login to its yield.
existing_user_api_logged(st, l) ==
    IF l.ret = "raised" THEN Stopped(st, l.cl, "failed", "raised")
    ELSE IF ~l.envelope.success THEN Stopped(st, l.cl, "failed", "failed")
    ELSE IF ~IsDict(user_of(l.envelope)) THEN Stopped(st, l.cl, "failed", "succeeded")
    ELSE Setup(l.cl, "ok", "succeeded", HandedApi, <<"existing_user_api">>,
               Get(user_of(l.envelope), k_id, None), <<>>, st.storage)

\* existing_user_api, up to its yield.
existing_user_api(st, c, out) ==
    IF ~is_valid(c)
    THEN Stopped(st, st.cl, "skipped", "none")
    ELSE existing_user_api_logged(st, login(st.cl, c.email, c.password, out))

\* auth_user from its login on: assert login_response.success, page.goto (which may
\* raise), page.evaluate("localStorage.setItem('accessToken', '{access_token}')"),
\* and the record it returns.  It registers no finalizer.
auth_user_logged(st, c, l, goto_ok) ==
    IF l.ret = "raised" THEN Stopped(st, l.cl, "failed", "raised")
    ELSE IF ~l.envelope.success THEN Stopped(st, l.cl, "failed", "failed")
    ELSE IF ~IsDict(user_of(l.envelope)) \/ ~goto_ok
    THEN Stopped(st, l.cl, "failed", "succeeded")
    ELSE Setup(l.cl, "ok", "succeeded",
               Handed("session",
                      [email |-> c.email, password |-> c.password,
                       name |-> Get(user_of(l.envelope), k_username, None),
                       id |-> Get(user_of(l.envelope), k_id, None),
                       access_token |-> Get(data_of(l.envelope), k_accessToken, None)],
                      <<>>),
               <<>>, st.test_user, <<>>,
               PyStr(Get(data_of(l.envelope), k_accessToken, None)))

\* auth_user
auth_user(st, c, out, goto_ok) ==
    IF ~is_valid(c)
    THEN Stopped(st, st.cl, "skipped", "none")
    ELSE auth_user_logged(st, c, login(st.cl, c.email, c.password, out), goto_ok)

\* create_quick_post(author_id=user_id).to_dict(): the payload of a seeded post.
TITLE == "Quick post title"
post_payload(user_id) == Dict((k_title :> Str(TITLE)) @@ (k_authorId :> user_id))
\* A record that takes its title from the create response instead of the payload.
post_record_title_from_response(envelope, user_id) ==
    [id |-> Get(data_of(envelope), k_id, None),
     title |-> PyStr(Get(data_of(envelope), k_title, None)), author_id |-> user_id]

\* {"id": response.json.get("data", {}).get("id"), "title": post_data.title,
\*  "author_id": user_id}
post_record(envelope, user_id) ==
    [id |-> Get(data_of(envelope), k_id, None), title |-> TITLE, author_id |-> user_id]

\* test_post once create_post has ended as r: assert response.success, the record.
test_post_created(a, r) ==
    IF r.ret = "raised"
    THEN [a EXCEPT !.cl = r.cl, !.result = "failed", !.value = NothingHanded,
                   !.created = <<"raised">>]
    ELSE IF ~r.envelope.success
    THEN [a EXCEPT !.cl = r.cl, !.result = "failed", !.value = NothingHanded,
                   !.created = <<"failed">>]
    ELSE IF ~IsDict(data_of(r.envelope))
    THEN [a EXCEPT !.cl = r.cl, !.result = "failed", !.value = NothingHanded,
                   !.created = <<"succeeded">>]
    ELSE [a EXCEPT !.cl = r.cl, !.value = Handed("post", NoSession, <<post_record(r.envelope, a.test_user)>>),
                   !.created = <<"succeeded">>]

\* test_post after api_as_user ended as a: it runs only when api_as_user yielded.
test_post_seed(a, out_create) ==
    IF a.result # "ok" THEN a
    ELSE test_post_created(a, create_post(a.cl, post_payload(a.test_user), out_create))

\* test_post
test_post(st, c, out_login, out_create) == test_post_seed(api_as_user(st, c, out_login), out_create)

\* for i in range(3)
POSTS_COUNT == 3

\* One round of the loop of test_posts once create_post has ended as r;
\* acc = [cl, posts, created, raised].
test_posts_round(acc, user_id, r) ==
    IF r.ret = "raised"
    THEN [acc EXCEPT !.cl = r.cl, !.raised = TRUE, !.created = Append(acc.created, "raised")]
    ELSE IF ~r.envelope.success
    THEN [acc EXCEPT !.cl = r.cl, !.created = Append(acc.created, "failed")]
    ELSE IF ~IsDict(data_of(r.envelope))
    THEN [acc EXCEPT !.cl = r.cl, !.raised = TRUE, !.created = Append(acc.created, "succeeded")]
    ELSE [acc EXCEPT !.cl = r.cl,
                     !.posts = Append(acc.posts, post_record(r.envelope, user_id)),
                     !.created = Append(acc.created, "succeeded")]

\* The loop of test_posts from its i-th round.
RECURSIVE test_posts_loop(_, _, _, _)
test_posts_loop(acc, user_id, outs, i) ==
    IF i > POSTS_COUNT \/ acc.raised THEN acc
    ELSE test_posts_loop(
             test_posts_round(acc, user_id, create_post(acc.cl, post_payload(user_id), outs[i])),
             user_id, outs, i + 1)

\* test_posts once its loop has ended as done: the list is returned as it stands.
test_posts_return(a, done) ==
    IF done.raised
    THEN [a EXCEPT !.cl = done.cl, !.result = "failed", !.value = NothingHanded,
                   !.created = done.created]
    ELSE [a EXCEPT !.cl = done.cl, !.value = Handed("posts", NoSession, done.posts),
                   !.created = done.created]

\* test_posts after api_as_user ended as a.
test_posts_seed(a, outs) ==
    IF a.result # "ok" THEN a
    ELSE test_posts_return(a, test_posts_loop([cl |-> a.cl, posts |-> <<>>, created |-> <<>>,
                                               raised |-> FALSE],
                                              a.test_user, outs, 1))

\* test_posts
test_posts(st, c, out_login, outs) == test_posts_seed(api_as_user(st, c, out_login), outs)

\* api.clear_session() after api.auth.logout() ended as l: not reached when it raised.
clear_after_logout(l) ==
    IF l.ret = "raised"
    THEN [cl |-> l.cl, op |-> Op("logout", "raised")]
    ELSE [cl |-> clear_session(l.cl), op |-> Op("clear_session", "returned")]

\* After the yield of api_as_user / existing_user_api:
\* api.auth.logout(); api.clear_session()
logout_then_clear(cl, out) == clear_after_logout(logout(cl, out))

(***************************************************************************)
(* Transport outcomes of the endpoints the fixtures call.                  *)
(***************************************************************************)
Tokens == {"jwt1", "jwt2"}
Ack == Dict(k_message :> Str("ok"))
ErrorBody == Dict(k_message :> Str("rejected"))
UserBody == Dict((k_id :> Num(1)) @@ (k_username :> Str("tester")))
LoginBody(tok) == Dict(k_data :> Dict((k_accessToken :> Str(tok)) @@ (k_user :> UserBody)))
LoginBodyNoToken == Dict(k_data :> Dict(k_user :> UserBody))
LoginBodyNullData == Dict(k_data :> None)

LoginOutcomes ==
    {Response(200, TRUE, LoginBody(tok), c) : tok \in Tokens, c \in {{}, {"sid"}}}
      \cup { Response(200, TRUE, LoginBodyNoToken, {}),
             Response(200, TRUE, LoginBodyNullData, {}),
             Response(304, FALSE, Str(""), {}),
             Response(401, TRUE, ErrorBody, {}),
             Response(500, FALSE, Str("<html>"), {}) }
      \cup {Raises(e) : e \in TransportErrors}

LogoutOutcomes ==
    {Response(200, TRUE, Ack, {}), Response(401, TRUE, ErrorBody, {}), Raises("Timeout")}

CreateOutcomes ==
    { Response(201, TRUE, Dict(k_data :> Dict(k_id :> Num(7))), {}),
      Response(400, TRUE, ErrorBody, {}),
      Raises("Timeout") }

(***************************************************************************)
(* The values the builders and the session start from.                     *)
(***************************************************************************)
\* @dataclass PostData
PostData(title, type, author_id, blocks, community_id, original_post_id, hashtag_ids, thumbnail_url) ==
    [title |-> title, type |-> type, author_id |-> author_id, blocks |-> blocks,
     community_id |-> community_id, original_post_id |-> original_post_id,
     hashtag_ids |-> hashtag_ids, thumbnail_url |-> thumbnail_url]

\* PostBuilder.__init__: the optional fields take the dataclass defaults.
PostBuilder_init == PostData("", "PERSONAL", 0, <<>>, None, None, <<>>, None)

\* @dataclass BlockData
BlockData(type, content, x, y, width, height) ==
    [type |-> type, content |-> content, x |-> x, y |-> y, width |-> width,
     height |-> height]

\* BlockBuilder.__init__
BlockBuilder_init == BlockData("TEXT", "", 0, 0, 12, 100)

\* UserBuilder.__init__ (bio and gender stay None unless set; build() does not touch them)
UserBuilder_init == [email |-> "", name |-> "", password |-> "Test@12345"]

\* CommentBuilder.__init__
CommentBuilder_init == [post_id |-> 0, commenter_id |-> 0, content |-> ""]

NotReturned == [ref |-> "none", first |-> PostBuilder_init]
NotBuilt == [built |-> FALSE, filled |-> FALSE, block |-> EmptyDict]
NotCalled == [called |-> FALSE, author_id |-> 0, blocks_count |-> 0, post |-> PostBuilder_init]

\* What pytest made of one phase of a test: report.when, report.outcome and
\* report.longrepr (the failure it carries).
TestReport(when, result, longrepr) == [when |-> when, outcome |-> result, longrepr |-> longrepr]
NoReport == TestReport("none", "none", "none")

\* A call of pytest_runtest_makereport as it stands: the report it was given and the
\* report as it leaves it, the exception it raised, what raised inside its try
\* blocks, item._test_name_for_video, its log entries and the files it wrote.
HookCall(report, name) ==
    [made |-> report, report |-> report, raised |-> "none", step_raised |-> "none",
     video_name |-> name, log |-> <<>>, files |-> {}]
NoHookItem ==
    [n |-> 0, phase |-> "idle", has_page |-> FALSE, record_video |-> FALSE,
     video_name |-> <<>>, call |-> NoReport, kept_call |-> NoReport]

\* A call of a wait helper as it stands: how Playwright's wait ended, whether the
\* helper returned and what, the exception it raised, its log entries.
Waited(helper, timeout, wait_ended) ==
    [helper |-> helper, timeout |-> timeout, wait |-> wait_ended, returned |-> FALSE,
     ret |-> FALSE, raised |-> "none", log |-> <<>>]
NotWaited == Waited("none", 0, "none")

\* No login page is open.
NoPage == [opened |-> FALSE, closed |-> FALSE, toast_at |-> -1, redirect_at |-> -1]

\* No test item is running.
NoItem == [n |-> 0, kind |-> "none", phase |-> "idle", plan |-> <<>>, fin |-> <<>>]

(***************************************************************************)
(* Initial state: the api fixture has constructed the client               *)
(* (BaseAPIClient.__init__), no test has started.                          *)
(***************************************************************************)
CredsChoices == [email : {"", "user@example.com"}, password : {"", "Passw0rd1"}]

Init ==
    /\ creds \in CredsChoices
    /\ headers = ("Content-Type" :> <<"application/json">>)
    /\ cookies = {}
    /\ lastCall = NoCall
    /\ lastOp = Op("none", "none")
    /\ pc = "idle"
    /\ fx = "none"
    /\ outcome = "none"
    /\ active = <<>>
    /\ handed = NothingHanded
    /\ localStorage = "no_context"
    /\ setupLogin = "none"
    /\ created = <<>>
    /\ bodyOps = 0
    /\ test_user = Unset
    /\ testsRun = 0
    /\ run = "running"
    /\ browser = "none"
    /\ launches = 0
    /\ api_client = "none"
    /\ constructions = 0
    /\ contexts = {}
    /\ pages = {}
    /\ item = NoItem
    /\ trace = <<>>
    /\ subject = "none"
    /\ post_builder = PostBuilder_init
    /\ block_builder = BlockBuilder_init
    /\ returned = NotReturned
    /\ block_built = NotBuilt
    /\ adds = <<>>
    /\ calls = <<>>
    /\ quick = NotCalled
    /\ user_builder = UserBuilder_init
    /\ comment_builder = CommentBuilder_init
    /\ hook_item = NoHookItem
    /\ hook = HookCall(NoReport, <<>>)
    /\ artifacts = {}
    /\ ui = NoPage
    /\ clock = 0
    /\ waited = NotWaited

(***************************************************************************)
(* The worker: one test after another.  A test is the setup of the fixture *)
(* it requests, its body (client calls, then its verdict) and the          *)
(* finalizers of the fixtures that were set up, innermost first.           *)
(***************************************************************************)
State == [cl |-> Client(headers, cookies, lastCall), test_user |-> test_user,
          storage |-> localStorage]

\* The last client operation of a finished setup.
SetupOp(s) ==
    IF s.created # <<>>
    THEN Op("create_post", IF s.created[Len(s.created)] = "raised" THEN "raised" ELSE "returned")
    ELSE IF s.login = "none" THEN lastOp
    ELSE Op("login", IF s.login = "raised" THEN "raised" ELSE "returned")

\* pytest runs the setup of test `f`, which ends as s; `outer` are the finalizers of
\* the fixtures the composite depends on (context, page), registered before it ran.
Begin(f, s, outer) ==
    /\ pc = "idle"
    /\ testsRun < MaxTests
    /\ testsRun' = testsRun + 1
    /\ fx' = f
    /\ headers' = s.cl.headers
    /\ cookies' = s.cl.cookies
    /\ lastCall' = s.cl.call
    /\ lastOp' = SetupOp(s)
    /\ outcome' = IF s.result = "ok" THEN "none" ELSE s.result
    /\ pc' = IF s.result = "ok" THEN "call" ELSE "teardown"
    /\ active' = outer \o s.finalizers
    /\ handed' = s.value
    /\ localStorage' = s.storage
    /\ setupLogin' = s.login
    /\ created' = s.created
    /\ bodyOps' = 0
    /\ test_user' = s.test_user
    /\ UNCHANGED <<creds, sessionVars, builderVars, hookVars, waitVars>>

\* A test that requests only the session-scoped api fixture.
SetupApi ==
    Begin("api", Setup(State.cl, "ok", "none", HandedApi, <<>>, test_user, <<>>,
                       localStorage), <<>>)

SetupApiAsUser ==
    \E out \in LoginOutcomes : Begin("api_as_user", api_as_user(State, creds, out), <<>>)

SetupExistingUserApi ==
    \E out \in LoginOutcomes :
        Begin("existing_user_api", existing_user_api(State, creds, out), <<>>)

\* context and page are created first (a fresh storage jar), then auth_user runs;
\* logged_in_page returns the page of the same auth_user.
SetupAuthUser ==
    \E f \in {"auth_user", "logged_in_page"}, out \in LoginOutcomes, goto_ok \in BOOLEAN :
        Begin(f, auth_user([State EXCEPT !.storage = "unset"], creds, out, goto_ok),
              <<"context", "page">>)

SetupTestPost ==
    \E out \in LoginOutcomes, c \in CreateOutcomes :
        Begin("test_post", test_post(State, creds, out, c), <<>>)

SetupTestPosts ==
    \E out \in LoginOutcomes, outs \in [1..POSTS_COUNT -> CreateOutcomes] :
        Begin("test_posts", test_posts(State, creds, out, outs), <<>>)

\* A client operation `name` made by the test body, which ended as r; an exception
\* it raises fails the test.
BodyOp(name, r) ==
    /\ pc = "call"
    /\ bodyOps < MaxBodyOps
    /\ bodyOps' = bodyOps + 1
    /\ headers' = r.cl.headers
    /\ cookies' = r.cl.cookies
    /\ lastCall' = r.cl.call
    /\ lastOp' = Op(name, r.ret)
    /\ pc' = IF r.ret = "raised" THEN "teardown" ELSE "call"
    /\ outcome' = IF r.ret = "raised" THEN "failed" ELSE outcome
    /\ UNCHANGED <<creds, fx, active, handed, localStorage, setupLogin, created,
                   test_user, testsRun, sessionVars, builderVars, hookVars, waitVars>>

BodyLogin ==
    \E out \in LoginOutcomes :
        BodyOp("login", login(State.cl, "user@example.com", "Passw0rd1", out))

BodyLogout == \E out \in LogoutOutcomes : BodyOp("logout", logout(State.cl, out))

BodyClearSession ==
    BodyOp("clear_session", Result(clear_session(State.cl), "returned", NoEnvelope, "none"))

\* The test body ends: it passes, or an assertion or an unexpected exception fails it.
FinishBody ==
    /\ pc = "call"
    /\ pc' = "teardown"
    /\ \E verdict \in {"passed", "failed"} : outcome' = verdict
    /\ UNCHANGED <<creds, headers, cookies, lastCall, lastOp, fx, active, handed,
                   localStorage, setupLogin, created, bodyOps, test_user, testsRun, sessionVars,
                   builderVars, hookVars, waitVars>>

LoginFinalizers == {"api_as_user", "existing_user_api"}
HasFinalizer(names) == \E i \in DOMAIN active : active[i] \in names

\* The login composite's finalizer has ended as t.
Finalized(t) ==
    /\ headers' = t.cl.headers
    /\ cookies' = t.cl.cookies
    /\ lastCall' = t.cl.call
    /\ lastOp' = t.op

\* pytest runs every registered finalizer, innermost first: the login composite's
\* logout and clear_session, then page.close() and context.close() (which discards
\* the context's storage).
Teardown ==
    /\ pc = "teardown"
    /\ pc' = "ended"
    /\ active' = <<>>
    /\ localStorage' = IF HasFinalizer({"context"}) THEN "no_context" ELSE localStorage
    /\ IF HasFinalizer(LoginFinalizers)
       THEN \E out \in LogoutOutcomes : Finalized(logout_then_clear(State.cl, out))
       ELSE UNCHANGED <<headers, cookies, lastCall, lastOp>>
    /\ UNCHANGED <<creds, fx, outcome, handed, setupLogin, created, bodyOps, test_user,
                   testsRun, sessionVars, builderVars, hookVars, waitVars>>

\* pytest goes on to the next test: what is recorded about the finished test (the
\* fixture it requested, its outcome, what it was handed, its calls) starts afresh;
\* the session-scoped client keeps its headers, cookies and _test_user.
Collect ==
    /\ pc = "ended"
    /\ pc' = "idle"
    /\ fx' = "none"
    /\ outcome' = "none"
    /\ handed' = NothingHanded
    /\ setupLogin' = "none"
    /\ created' = <<>>
    /\ bodyOps' = 0
    /\ lastCall' = NoCall
    /\ lastOp' = Op("none", "none")
    /\ UNCHANGED <<creds, headers, cookies, active, localStorage, test_user, testsRun,
                   sessionVars, builderVars, hookVars, waitVars>>

Next ==
    \/ SetupApi
    \/ SetupApiAsUser
    \/ SetupExistingUserApi
    \/ SetupAuthUser
    \/ SetupTestPost
    \/ SetupTestPosts
    \/ BodyLogin
    \/ BodyLogout
    \/ BodyClearSession
    \/ FinishBody
    \/ Teardown
    \/ Collect

Spec == Init /\ [][Next]_vars

(***************************************************************************)
(* SpecRequest: direct calls of get/post/patch/put/delete with bodies of   *)
(* every shape up to MaxDepth, against every transport outcome.            *)
(***************************************************************************)
SECRET == "s3cr3t"
PLAIN == "alice"
Leaves == {Str(SECRET), Str(PLAIN)}
BodyKeys == {k_password, k_Password, k_PASSWORD, k_name, k_user}

Wrap(S) == {Dict(k :> x) : k \in BodyKeys, x \in S} \cup {List(<<x>>) : x \in S}

RECURSIVE JSONUpTo(_)
JSONUpTo(d) == IF d = 0 THEN Leaves ELSE Leaves \cup Wrap(JSONUpTo(d - 1))

\* A mapping with a second, harmless entry beside the one it has.
WithSibling(S) ==
    S \cup {Dict(x.v @@ (k_name :> Str(PLAIN))) : x \in {y \in S : IsDict(y) /\ k_name \notin DOMAIN y.v}}

Bodies == WithSibling(JSONUpTo(MaxDepth))

Methods == {"GET", "POST", "PATCH", "PUT", "DELETE"}
StatusCodes == {200, 204, 304, 401, 500}

PlainOutcomes ==
    {Response(s, TRUE, Ack, {}) : s \in StatusCodes}
      \cup {Response(200, TRUE, Ack, {"sid"}), Response(500, FALSE, Str("<html>"), {})}
      \cup {Raises(e) : e \in TransportErrors}
BodyOutcomes == {Response(s, TRUE, b, {}) : s \in {200, 304, 404}, b \in Bodies}

\* BaseAPIClient.get / post / patch / put / delete: each is _request with its method;
\* the call ended as r.  A behaviour is one call on the freshly constructed client: a
\* call reads nothing of an earlier one but the cookie jar.
Call(r) ==
    /\ lastCall = NoCall
    /\ lastCall' = r
    /\ cookies' = r.jar
    /\ lastOp' = Op("request", IF r.ret = "raised" THEN "raised" ELSE "returned")
    /\ UNCHANGED <<creds, headers, pc, fx, outcome, active, handed, localStorage,
                   setupLogin, created, bodyOps, test_user, testsRun, sessionVars, builderVars,
                   hookVars, waitVars>>

SendBody ==
    \E method \in Methods, body \in Bodies, out \in PlainOutcomes :
        Call(_request(cookies, method, "resource", TRUE, body, out))

ReceiveBody ==
    \E method \in Methods, out \in BodyOutcomes :
        Call(_request(cookies, method, "resource", FALSE, None, out))

NextRequest == SendBody \/ ReceiveBody

InitRequest == Init /\ creds.email # "" /\ creds.password # ""

SpecRequest == InitRequest /\ [][NextRequest]_vars

(***************************************************************************)
(* Claims about _request and the log masking (checked under SpecRequest).  *)
(***************************************************************************)
DebugTexts == {lastCall.log[i].msg : i \in {j \in DOMAIN lastCall.log : lastCall.log[j].level = "DEBUG"}}
ErrorLines == {i \in DOMAIN lastCall.log : lastCall.log[i].level = "ERROR"}
Occurs(tok, text) == \E i \in DOMAIN text : text[i] = tok

\* A key matches the sensitive-keyword set, case-insensitively.
MatchesSensitive(key) == \E kw \in sensitive_keys : Contains(lower(kw), lower(key))

\* C1: every returned envelope has success = TRUE exactly when the transport's
\* status code is in 200..299, whatever the body.
C1_SuccessIff2xx ==
    lastCall.ret = "envelope" =>
        (lastCall.envelope.success <=> lastCall.out.status_code \in 200..299)

\* C8: in every logged request or response body, of any shape, the value written
\* after a key that matches the sensitive-keyword set is the mask.
C8_NoUnmaskedSensitive ==
    \A text \in DebugTexts : \A i \in DOMAIN text :
        (text[i].t = "key" /\ MatchesSensitive(text[i].v)) =>
            (i + 2 \in DOMAIN text /\ text[i + 2] = Str(MASK))

IsPasswordKey(k) == lower(k) = k_password
NotPasswordKeys(d) == {k \in DOMAIN d.v : ~IsPasswordKey(k)}

\* The mapping has a 'password' key, in any casing, at the top level or in a
\* mapping nested one level deep.
HasPassword(body) ==
    /\ IsDict(body)
    /\ \E k \in DOMAIN body.v :
          \/ IsPasswordKey(k)
          \/ IsDict(body.v[k]) /\ \E k2 \in DOMAIN body.v[k].v : IsPasswordKey(k2)

\* The mapping without those entries.
StripPasswords(body) ==
    Dict([k \in NotPasswordKeys(body) |->
             IF IsDict(body.v[k])
             THEN Dict([k2 \in NotPasswordKeys(body.v[k]) |-> body.v[k].v[k2]])
             ELSE body.v[k]])

RequestBodyTexts == {text \in DebugTexts : text[1] = Punct("Request Body:")}

\* How many of the opening token are unclosed before position i of a text.
Nesting(text, i, open, close) ==
    Cardinality({j \in 1..(i - 1) : text[j] = Punct(open)})
      - Cardinality({j \in 1..(i - 1) : text[j] = Punct(close)})

\* C9: for a request body that is a mapping with a 'password' key in any casing,
\* at the top level or in a mapping nested one level deep, the logged text holds
\* the mask in place of that key's value, and does not hold the literal value.
C9_PasswordMasked ==
    (lastCall.has_json /\ HasPassword(lastCall.sent)) =>
        /\ RequestBodyTexts # {}
        /\ \A text \in RequestBodyTexts :
              /\ Occurs(Str(MASK), text)
              /\ \A i \in DOMAIN text :
                    ( /\ text[i].t = "key"
                      /\ IsPasswordKey(text[i].v)
                      /\ Nesting(text, i, "[", "]") = 0
                      /\ Nesting(text, i, "{", "}") <= 2 )
                    => text[i + 2] = Str(MASK)
              /\ ~Occurs(Str(SECRET), Repr(StripPasswords(lastCall.sent)))
                    => ~Occurs(Str(SECRET), text)

\* A body {"user": {"PASSWORD": secret}, "name": ...} has been sent and logged.
C9_Witness ==
    /\ lastCall.has_json
    /\ lastCall.ret = "envelope"
    /\ lastCall.sent = Dict((k_user :> Dict(k_PASSWORD :> Str(SECRET))) @@ (k_name :> Str(PLAIN)))

LoginComposites == {"api_as_user", "existing_user_api", "auth_user", "logged_in_page"}
Unauthenticated == ~HasAuthorization(headers) /\ cookies = {}

\* C2: once a test that used a login composite has ended, the session-scoped client
\* carries no Authorization header and no cookies.
C2_EndedTestLeavesNoSession ==
    (pc = "ended" /\ fx \in LoginComposites /\ setupLogin # "none") => Unauthenticated

\* The token of the body of the last call, None when it has none.
TokenOfLastCall ==
    IF lastCall.ret = "envelope" /\ IsDict(data_of(lastCall.envelope))
    THEN Get(data_of(lastCall.envelope), k_accessToken, None)
    ELSE None

LoginSucceeded ==
    lastOp = Op("login", "returned") /\ lastCall.ret = "envelope" /\ lastCall.envelope.success

\* C3 as stated: whenever login returned an envelope with success = TRUE the default
\* headers hold 'Bearer <token of that login>'; whenever logout has returned they
\* hold no Authorization header.
C3_LoginAlwaysInstalls ==
    /\ LoginSucceeded =>
          /\ HasAuthorization(headers)
          /\ headers["Authorization"] = Bearer(TokenOfLastCall)
    /\ lastOp = Op("logout", "returned") => ~HasAuthorization(headers)

\* C3: whenever login returned an envelope with success = TRUE whose body carries a
\* non-empty data.accessToken, the default headers hold 'Bearer <that token>';
\* whenever logout has returned they hold no Authorization header.
C3_LoginInstallsReturnedToken ==
    /\ (LoginSucceeded /\ Truthy(TokenOfLastCall)) =>
          /\ HasAuthorization(headers)
          /\ headers["Authorization"] = Bearer(TokenOfLastCall)
    /\ lastOp = Op("logout", "returned") => ~HasAuthorization(headers)

\* A test body logged in again and got another token than the header held.
C3_Witness ==
    /\ LoginSucceeded
    /\ bodyOps > 0
    /\ TokenOfLastCall = Str("jwt2")
    /\ headers["Authorization"] = Bearer(Str("jwt2"))

\* C4: after clear_session() the cookie jar is empty and the default headers hold no
\* Authorization header.
C4_ClearSessionUnauthenticates ==
    lastOp = Op("clear_session", "returned") => Unauthenticated

\* C5: whenever auth_user hands its record to a test, the record's access_token is
\* the token in the Authorization header and in localStorage['accessToken'].
C5_TokenInHeaderAndStorage ==
    (pc = "call" /\ bodyOps = 0 /\ handed.kind = "session") =>
        /\ handed.session.access_token.t = "str"
        /\ handed.session.access_token.v # ""
        /\ HasAuthorization(headers)
        /\ headers["Authorization"] = Bearer(handed.session.access_token)
        /\ localStorage = handed.session.access_token.v

AuthenticatedFixtures == {"auth_user", "api_as_user", "existing_user_api"}
Configured == creds.email # "" /\ creds.password # ""

\* C6: in auth_user, api_as_user and existing_user_api, with no credentials
\* configured the test is skipped and no login request is sent; with credentials
\* configured and a login envelope with success = FALSE the test is failed and its
\* body never runs.
C6_SkipOrFail ==
    (fx \in AuthenticatedFixtures /\ pc # "idle") =>
        /\ ~Configured =>
              /\ outcome = "skipped"
              /\ setupLogin = "none"
              /\ lastCall = NoCall
              /\ handed = NothingHanded
        /\ (Configured /\ setupLogin = "failed") =>
              /\ outcome = "failed"
              /\ pc \in {"teardown", "ended"}
              /\ bodyOps = 0
              /\ handed = NothingHanded
        /\ outcome = "skipped" => ~Configured

\* api_as_user was refused by the server (401) with credentials configured.
C6_Witness ==
    /\ fx = "api_as_user"
    /\ Configured
    /\ setupLogin = "failed"
    /\ lastCall.ret = "envelope"
    /\ lastCall.envelope.status_code = 401
    /\ outcome = "failed"

SeedFixtures == {"test_post", "test_posts"}
Intended == IF fx = "test_post" THEN 1 ELSE POSTS_COUNT
CreateFailed == \E i \in DOMAIN created : created[i] = "failed"

\* C7: in test_post and test_posts, a create_post envelope with success = FALSE
\* fails the test and its body never runs; every list test_posts hands over has
\* three records; no more create_post calls are made than posts are intended.
C7_SeedFailureFailsTest ==
    (fx \in SeedFixtures /\ pc # "idle") =>
        /\ CreateFailed =>
              /\ outcome = "failed"
              /\ pc \in {"teardown", "ended"}
              /\ bodyOps = 0
        /\ handed.kind = "posts" => Len(handed.posts) = POSTS_COUNT
        /\ Len(created) <= Intended

(***************************************************************************)
(* SpecSession: one pytest session, fixture step by fixture step.  A test  *)
(* item requests one of the fixtures of conftest.py; pytest sets up the    *)
(* fixtures of its closure, session-scoped ones first and each at most     *)
(* once per session, runs the test and then the finalizers of the          *)
(* function-scoped fixtures that yielded, innermost first.  The requests   *)
(* a fixture sends are abstracted to how they ended.                       *)
(***************************************************************************)
Kinds == {"page", "api", "api_as_user", "auth_user", "test_post", "test_posts"}

\* The fixtures a test of each kind pulls in, from the fixtures' parameters.
Closure(kind) ==
    CASE kind = "page" -> {"browser", "context", "page"}
      [] kind = "api" -> {"api"}
      [] kind = "api_as_user" -> {"api", "api_as_user"}
      [] kind = "auth_user" -> {"browser", "api", "context", "page", "auth_user"}
      [] kind = "test_post" -> {"api", "api_as_user", "test_post"}
      [] kind = "test_posts" -> {"api", "api_as_user", "test_posts"}

\* Session-scoped fixtures before function-scoped ones, each after what it depends on.
SetupOrder ==
    <<"browser", "api", "context", "page", "api_as_user", "auth_user", "test_post",
      "test_posts">>

\* A browser fixture that is set up again for every test.
browser_cached_never(b) == FALSE

\* A session-scoped fixture that was set up is not set up again (scope="session").
browser_cached(b) == b # "none"
api_cached(a) == a # "none"

\* An auth_user that writes the token before it logs in.
auth_user_steps_token_first == <<"setItem", "login", "goto">>

\* auth_user: api.auth.login, page.goto, page.evaluate(localStorage.setItem ...).
auth_user_steps == <<"login", "goto", "setItem">>

\* What the setup of each fixture does, in the order of its code.
Steps(fixture, b, a) ==
    CASE fixture = "browser" -> IF browser_cached(b) THEN <<>> ELSE <<"browser.launch">>
      [] fixture = "api" -> IF api_cached(a) THEN <<>> ELSE <<"api.construct">>
      [] fixture = "context" -> <<"context.new">>
      [] fixture = "page" -> <<"page.new">>
      [] fixture = "api_as_user" -> <<"login">>
      [] fixture = "auth_user" -> auth_user_steps
      [] fixture = "test_post" -> <<"create_post">>
      [] fixture = "test_posts" -> [i \in 1..POSTS_COUNT |-> "create_post"]

RECURSIVE PlanFrom(_, _, _, _)
PlanFrom(i, kind, b, a) ==
    IF i > Len(SetupOrder) THEN <<>>
    ELSE (IF SetupOrder[i] \in Closure(kind) THEN Steps(SetupOrder[i], b, a) ELSE <<>>)
           \o PlanFrom(i + 1, kind, b, a)

\* The setup steps of a test of this kind, given what the session already holds.
Plan(kind, b, a) == PlanFrom(1, kind, b, a)

Event(ev, res) == [ev |-> ev, res |-> res]

\* pytest starts the next test item.
StartTest ==
    /\ run = "running"
    /\ item.phase \in {"idle", "ended"}
    /\ item.n < MaxTests
    /\ \E kind \in Kinds :
          item' = [n |-> item.n + 1, kind |-> kind, phase |-> "setup",
                   plan |-> Plan(kind, browser, api_client), fin |-> <<>>]
    /\ trace' = <<>>
    /\ UNCHANGED <<run, browser, launches, api_client, constructions, contexts, pages,
                   workerVars, builderVars, hookVars, waitVars>>

AtStep(step) ==
    /\ run = "running"
    /\ item.phase = "setup"
    /\ item.plan # <<>>
    /\ Head(item.plan) = step

\* A setup step ended as res: the setup goes on, registering the finalizers of a
\* fixture that yielded, or it stops and pytest turns to the teardown.
Stepped(step, res, continues, fin_add) ==
    /\ trace' = Append(trace, Event(step, res))
    /\ item' = IF continues
               THEN [item EXCEPT !.plan = Tail(item.plan), !.fin = item.fin \o fin_add]
               ELSE [item EXCEPT !.plan = <<>>, !.phase = "teardown"]
    /\ UNCHANGED <<run, workerVars, builderVars, hookVars, waitVars>>

Ended(success) == IF success THEN "ok" ELSE "raised"

\* browser: playwright_instance.chromium.launch(...)
LaunchBrowser ==
    /\ AtStep("browser.launch")
    /\ \E launched \in BOOLEAN :
          /\ Stepped("browser.launch", Ended(launched), launched, <<>>)
          /\ browser' = IF launched THEN "open" ELSE browser
          /\ launches' = IF launched THEN launches + 1 ELSE launches
    /\ UNCHANGED <<api_client, constructions, contexts, pages>>

\* api: client = BlogAPIClient()
ConstructApi ==
    /\ AtStep("api.construct")
    /\ Stepped("api.construct", "ok", TRUE, <<>>)
    /\ api_client' = "built"
    /\ constructions' = constructions + 1
    /\ UNCHANGED <<browser, launches, contexts, pages>>

\* The code after the yield of context and of page.
context_finalizer_never(opened) == <<>>
context_finalizer(opened) == IF opened THEN <<"context.close">> ELSE <<>>
page_finalizer(opened) == IF opened THEN <<"page.close">> ELSE <<>>

\* context: BrowserFactory.create_context(browser); yield context
NewContext ==
    /\ AtStep("context.new")
    /\ \E opened \in BOOLEAN :
          /\ Stepped("context.new", Ended(opened), opened, context_finalizer(opened))
          /\ contexts' = IF opened THEN contexts \cup {item.n} ELSE contexts
    /\ UNCHANGED <<browser, launches, api_client, constructions, pages>>

\* page: context.new_page(); yield page
NewPage ==
    /\ AtStep("page.new")
    /\ \E opened \in BOOLEAN :
          /\ Stepped("page.new", Ended(opened), opened, page_finalizer(opened))
          /\ pages' = IF opened THEN pages \cup {item.n} ELSE pages
    /\ UNCHANGED <<browser, launches, api_client, constructions, contexts>>

RequestResults == {"success", "failure", "raised"}

\* api_as_user yields after its login; auth_user returns and registers nothing.
login_finalizer(kind, res) ==
    IF kind # "auth_user" /\ res = "success" THEN <<"api_as_user">> ELSE <<>>

\* api.auth.login(...) of api_as_user or auth_user, then the check of .success.
Login ==
    /\ AtStep("login")
    /\ \E res \in RequestResults :
          Stepped("login", res, res = "success", login_finalizer(item.kind, res))
    /\ UNCHANGED <<browser, launches, api_client, constructions, contexts, pages>>

\* auth_user: page.goto(settings.urls.base_ui)
Goto ==
    /\ AtStep("goto")
    /\ \E loaded \in BOOLEAN : Stepped("goto", Ended(loaded), loaded, <<>>)
    /\ UNCHANGED <<browser, launches, api_client, constructions, contexts, pages>>

\* auth_user: page.evaluate("localStorage.setItem('accessToken', ...)")
SetItem ==
    /\ AtStep("setItem")
    /\ \E stored \in BOOLEAN : Stepped("setItem", Ended(stored), stored, <<>>)
    /\ UNCHANGED <<browser, launches, api_client, constructions, contexts, pages>>

\* test_post asserts response.success; test_posts goes on to the next post.
create_post_continues(kind, res) ==
    IF kind = "test_post" THEN res = "success" ELSE res # "raised"

\* test_post / test_posts: api_as_user.posts.create_post(...)
CreatePost ==
    /\ AtStep("create_post")
    /\ \E res \in RequestResults :
          Stepped("create_post", res, create_post_continues(item.kind, res), <<>>)
    /\ UNCHANGED <<browser, launches, api_client, constructions, contexts, pages>>

\* Every fixture is set up: the test body runs, and passes or fails.
RunBody ==
    /\ run = "running"
    /\ item.phase = "setup"
    /\ item.plan = <<>>
    /\ \E verdict \in {"passed", "failed"} : trace' = Append(trace, Event("body", verdict))
    /\ item' = [item EXCEPT !.phase = "teardown"]
    /\ UNCHANGED <<run, browser, launches, api_client, constructions, contexts, pages,
                   workerVars, builderVars, hookVars, waitVars>>

\* context.close() closes the pages of the context with it.
Closing(f, open, n) == IF f \in {"page.close", "context.close"} THEN open \ {n} ELSE open

\* The finalizer f, the innermost one left, runs: page.close(), context.close(), or
\* the logout and clear_session of api_as_user.
Finalizing(f) ==
    /\ trace' = Append(trace, Event(f, "ok"))
    /\ item' = [item EXCEPT !.fin = SubSeq(item.fin, 1, Len(item.fin) - 1)]
    /\ pages' = Closing(f, pages, item.n)
    /\ contexts' = IF f = "context.close" THEN contexts \ {item.n} ELSE contexts

Finalize ==
    /\ item.phase = "teardown"
    /\ item.fin # <<>>
    /\ Finalizing(item.fin[Len(item.fin)])
    /\ UNCHANGED <<run, browser, launches, api_client, constructions, workerVars,
                   builderVars, hookVars, waitVars>>

\* No finalizer is left: the test item has ended.
EndTest ==
    /\ item.phase = "teardown"
    /\ item.fin = <<>>
    /\ item' = [item EXCEPT !.phase = "ended"]
    /\ UNCHANGED <<run, browser, launches, api_client, constructions, contexts, pages,
                   trace, workerVars, builderVars, hookVars, waitVars>>

\* The last test item has ended: pytest finishes the session-scoped fixtures.
FinishSession ==
    /\ run = "running"
    /\ item.phase \in {"idle", "ended"}
    /\ run' = "finishing"
    /\ UNCHANGED <<browser, launches, api_client, constructions, contexts, pages, item,
                   trace, workerVars, builderVars, hookVars, waitVars>>

\* browser, after its yield: browser.close()
CloseBrowser ==
    /\ run = "finishing"
    /\ browser = "open"
    /\ browser' = "closed"
    /\ UNCHANGED <<run, launches, api_client, constructions, contexts, pages, item, trace,
                   workerVars, builderVars, hookVars, waitVars>>

\* api, after its yield: client.clear_session()
ApiTeardown ==
    /\ run = "finishing"
    /\ api_client = "built"
    /\ api_client' = "cleared"
    /\ UNCHANGED <<run, browser, launches, constructions, contexts, pages, item, trace,
                   workerVars, builderVars, hookVars, waitVars>>

SessionFinished ==
    /\ run = "finishing"
    /\ browser # "open"
    /\ api_client # "built"
    /\ run' = "finished"
    /\ UNCHANGED <<browser, launches, api_client, constructions, contexts, pages, item,
                   trace, workerVars, builderVars, hookVars, waitVars>>

NextSession ==
    \/ StartTest
    \/ LaunchBrowser
    \/ ConstructApi
    \/ NewContext
    \/ NewPage
    \/ Login
    \/ Goto
    \/ SetItem
    \/ CreatePost
    \/ RunBody
    \/ Finalize
    \/ EndTest
    \/ FinishSession
    \/ CloseBrowser
    \/ ApiTeardown
    \/ SessionFinished

InitSession == Init /\ creds.email # "" /\ creds.password # ""

SpecSession == InitSession /\ [][NextSession]_vars

(***************************************************************************)
(* Claims about the lifecycle of the fixtures (checked under SpecSession). *)
(***************************************************************************)
InTrace(e) == \E i \in DOMAIN trace : trace[i] = e
\* The place of the first event named ev in the trace of the current item, else 0.
Pos(ev) ==
    IF \E i \in DOMAIN trace : trace[i].ev = ev
    THEN CHOOSE i \in DOMAIN trace :
             trace[i].ev = ev /\ \A j \in DOMAIN trace : trace[j].ev = ev => i <= j
    ELSE 0
BodyRan == Pos("body") > 0
BetweenTests == item.phase \in {"idle", "ended"}

\* C11: a test that requests context/page runs with a context and a page created
\* for it; when it has ended, however its body ended, its page has been closed and
\* then its context; nothing an earlier test created is open while a later one runs.
C11_ContextAndPagePerTest ==
    /\ contexts \subseteq {item.n}
    /\ pages \subseteq {item.n}
    /\ BetweenTests => contexts = {} /\ pages = {}
    /\ (BodyRan /\ "page" \in Closure(item.kind)) =>
          /\ InTrace(Event("context.new", "ok"))
          /\ InTrace(Event("page.new", "ok"))
          /\ Pos("context.new") < Pos("page.new")
    /\ (item.phase = "ended" /\ InTrace(Event("context.new", "ok"))) =>
          Pos("context.close") > Pos("context.new")
    /\ (item.phase = "ended" /\ InTrace(Event("page.new", "ok"))) =>
          /\ Pos("page.close") > Pos("page.new")
          /\ Pos("page.close") < Pos("context.close")

\* The second test of the session used a page, failed in its body, and has ended.
C11_Witness ==
    /\ item.n = 2
    /\ item.phase = "ended"
    /\ InTrace(Event("body", "failed"))
    /\ InTrace(Event("page.close", "ok"))
    /\ InTrace(Event("context.close", "ok"))

SessionFixturesReady(with_api) ==
    (contexts # {} \/ pages # {}) => (browser = "open" /\ (with_api => api_client = "built"))

\* Within the setup of one test: the login of auth_user returned success before the
\* page navigated, the navigation ended before the token was stored, and no
\* create_post was sent before the login of api_as_user returned success.
StepsInOrder ==
    /\ Pos("goto") > 0 =>
          InTrace(Event("login", "success")) /\ Pos("login") < Pos("goto")
    /\ Pos("setItem") > 0 =>
          InTrace(Event("goto", "ok")) /\ Pos("goto") < Pos("setItem")
    /\ Pos("create_post") > 0 =>
          InTrace(Event("login", "success")) /\ Pos("login") < Pos("create_post")

\* C12 as stated: the browser and the API client exist before any per-test context
\* or page is created, and the steps of auth_user and test_post/test_posts happen in
\* dependency order.
C12_ClientBeforeEveryContext == SessionFixturesReady(TRUE) /\ StepsInOrder

\* C12: the browser, and the API client when the test requests a fixture that uses
\* it, exist before any per-test context or page is created; in auth_user the login
\* returns success before the page navigates, which ends before the token is
\* stored; in test_post/test_posts no create_post is sent before the login of
\* api_as_user returned success.
C12_SetupInDependencyOrder ==
    SessionFixturesReady("api" \in Closure(item.kind)) /\ StepsInOrder

\* auth_user went through its three steps, and the test body ran.
C12_Witness ==
    /\ item.kind = "auth_user"
    /\ InTrace(Event("login", "success"))
    /\ InTrace(Event("goto", "ok"))
    /\ InTrace(Event("setItem", "ok"))
    /\ BodyRan
    /\ pages = {item.n}

\* Neither session-scoped resource is created a second time, nor finished while
\* tests still run.
NeverRecreated ==
    /\ launches <= 1
    /\ constructions <= 1
    /\ run = "running" => (browser # "closed" /\ api_client # "cleared")
    /\ run = "finished" => (browser # "open" /\ api_client # "built")

\* C13 as stated: in any session of tests the browser is launched exactly once and
\* the API client constructed exactly once; neither is closed, cleared by its
\* fixture or re-created before the last test has finished.
C13_ExactlyOnce ==
    /\ NeverRecreated
    /\ (run = "finished" /\ item.n > 0) => (launches = 1 /\ constructions = 1)

\* C13: the browser is launched at most once and the API client constructed at most
\* once in a session, each exactly once when a test that requests it has run;
\* neither is closed, cleared by its fixture or re-created before the last test has
\* finished, and both are finished once the session has.
C13_OnceWhenRequested ==
    /\ NeverRecreated
    /\ (browser # "none") <=> (launches = 1)
    /\ (api_client # "none") <=> (constructions = 1)
    /\ (BodyRan /\ "browser" \in Closure(item.kind)) => launches = 1
    /\ (BodyRan /\ "api" \in Closure(item.kind)) => constructions = 1

\* The second test runs with the browser and the client the first one set up.
C13_Witness ==
    /\ item.n = 2
    /\ item.kind = "auth_user"
    /\ BodyRan
    /\ Pos("browser.launch") = 0
    /\ Pos("api.construct") = 0
    /\ browser = "open"
    /\ api_client = "built"

(***************************************************************************)
(* The seeded posts (checked under Spec).                                  *)
(***************************************************************************)
\* The posts the server created for the fixture of the current test.  test_post and
\* test_posts return their value, so they register no finalizer, and the finalizer
\* of api_as_user sends no delete_post: a post once created stays.
SeededPosts == {i \in DOMAIN created : created[i] = "succeeded"}

\* C14: when a test that used test_post or test_posts has ended, every post its
\* fixture created on the server has been deleted.
C14_SeededPostsUndone ==
    (pc = "ended" /\ fx \in SeedFixtures) => SeededPosts = {}

(***************************************************************************)
(* The builders of utils/data_builder.py.  A method is an operator from    *)
(* the builder's _data before to its _data after; what Faker generates is  *)
(* an argument, drawn from a small set of non-empty values.                *)
(***************************************************************************)
k_type == <<"t", "y", "p", "e">>
k_content == <<"c", "o", "n", "t", "e", "n", "t">>
k_x == <<"x">>
k_y == <<"y">>
k_width == <<"w", "i", "d", "t", "h">>
k_height == <<"h", "e", "i", "g", "h", "t">>
k_blocks == <<"b", "l", "o", "c", "k", "s">>
k_communityId == <<"c", "o", "m", "m", "u", "n", "i", "t", "y", "I", "d">>
k_originalPostId == <<"o", "r", "i", "g", "i", "n", "a", "l", "P", "o", "s", "t", "I", "d">>
k_hashtagIds == <<"h", "a", "s", "h", "t", "a", "g", "I", "d", "s">>
k_thumbnailUrl == <<"t", "h", "u", "m", "b", "n", "a", "i", "l", "U", "r", "l">>

\* fake.paragraph(), fake.image_url(), fake.sentence(nb_words=6)
Paragraphs == {"Lorem ipsum dolor sit amet. Consectetur adipiscing."}
ImageUrls == {"https://picsum.photos/640/480"}
Sentences == {"Lorem ipsum dolor sit amet consectetur."}
CODE_SNIPPET == "print('Hello World')"

\* str.rstrip('.') on the sentences Faker generates
rstrip_dot(sentence) ==
    CASE sentence = "Lorem ipsum dolor sit amet consectetur." ->
             "Lorem ipsum dolor sit amet consectetur"
      [] OTHER -> sentence

\* BlockData.to_dict(): image_caption and object_fit are never set by a builder and
\* are left out when unset.
BlockData_to_dict(b) ==
    Dict((k_type :> Str(b.type)) @@ (k_content :> Str(b.content)) @@ (k_x :> Num(b.x))
           @@ (k_y :> Num(b.y)) @@ (k_width :> Num(b.width)) @@ (k_height :> Num(b.height)))

\* BlockBuilder.as_text / as_image / as_code / as_quote
as_type(b, type) == [b EXCEPT !.type = type]
\* BlockBuilder.with_content, with_random_text, with_random_image_url
with_content(b, content) == [b EXCEPT !.content = content]
\* BlockBuilder.at_position
at_position(b, x, y) == [b EXCEPT !.x = x, !.y = y]
\* BlockBuilder.with_size
with_size(b, width, height) == [b EXCEPT !.width = width, !.height = height]

\* BlockBuilder.build: the content generated for a block whose content is empty.
generated_content(type, paragraph, image_url) ==
    CASE type = "TEXT" -> paragraph
      [] type = "IMAGE" -> image_url
      [] type = "CODE" -> CODE_SNIPPET
      [] OTHER -> ""

\* BlockBuilder.build on _data b: _data afterwards (the block is its to_dict()).
BlockBuilder_build(b, paragraph, image_url) ==
    IF b.content = ""
    THEN [b EXCEPT !.content = generated_content(b.type, paragraph, image_url)]
    ELSE b

\* BlockBuilder().as_<type>().with_content(content).at_position(0, y)
\*     .with_size(12, height).build()
new_block(type, content, y, height, paragraph, image_url) ==
    BlockData_to_dict(
        BlockBuilder_build(
            with_size(at_position(with_content(as_type(BlockBuilder_init, type), content),
                                  0, y),
                      12, height),
            paragraph, image_url))

\* A default that takes an explicit y of 0 for no y at all.
default_y_falsy(y, n) == IF Truthy(y) THEN y.v ELSE n * 100

\* block_y = y if y is not None else len(self._data.blocks) * 100
default_y(y, n) == IF y # None THEN y.v ELSE n * 100

\* PostBuilder.with_author / with_title / with_random_title
with_author(d, author_id) == [d EXCEPT !.author_id = author_id]
with_title(d, title) == [d EXCEPT !.title = title]
with_random_title(d, sentence) == [d EXCEPT !.title = rstrip_dot(sentence)]

\* PostBuilder.as_personal / as_community / as_repost
as_personal(d) == [d EXCEPT !.type = "PERSONAL"]
as_community(d, community_id) ==
    [d EXCEPT !.type = "COMMUNITY", !.community_id = Num(community_id)]
as_repost(d, original_post_id) ==
    [d EXCEPT !.type = "REPOST", !.original_post_id = Num(original_post_id)]

\* PostBuilder.add_block
add_block(d, block) == [d EXCEPT !.blocks = Append(d.blocks, block)]

\* PostBuilder.add_text_block(content, y)
add_text_block(d, content, y, paragraph, image_url) ==
    add_block(d, new_block("TEXT", content, default_y(y, Len(d.blocks)), 100, paragraph,
                           image_url))

\* PostBuilder.add_image_block(image_url, y)
add_image_block(d, content, y, paragraph, image_url) ==
    add_block(d, new_block("IMAGE", content, default_y(y, Len(d.blocks)), 200, paragraph,
                           image_url))

\* PostBuilder.add_random_text_blocks(count): for i in range(count)
RECURSIVE add_random_text_blocks(_, _, _)
add_random_text_blocks(d, count, paragraph) ==
    IF count <= 0 THEN d
    ELSE add_random_text_blocks(
             add_block(d, new_block("TEXT", paragraph, Len(d.blocks) * 100, 100, paragraph,
                                    paragraph)),
             count - 1, paragraph)

\* PostBuilder.with_hashtags / with_thumbnail
with_hashtags(d, hashtag_ids) == [d EXCEPT !.hashtag_ids = hashtag_ids]
with_thumbnail(d, url) == [d EXCEPT !.thumbnail_url = Str(url)]

\* PostBuilder.build: if not self._data.title
build_title(d, sentence) == IF d.title = "" THEN with_random_title(d, sentence) ELSE d

\* A build that appends a random text block whether or not the post has blocks.
build_blocks_always(d, paragraph) == add_random_text_blocks(d, 1, paragraph)

\* A build that leaves an empty blocks list as it is.
build_blocks_as_is(d, paragraph) == d

\* PostBuilder.build: if not self._data.blocks: self.add_random_text_blocks(1)
build_blocks(d, paragraph) ==
    IF d.blocks = <<>> THEN add_random_text_blocks(d, 1, paragraph) ELSE d

\* PostBuilder.build on _data d: _data afterwards.
PostBuilder_build(d, sentence, paragraph) == build_blocks(build_title(d, sentence), paragraph)

\* PostBuilder.build: return self._data -- the object the builder goes on using.
build_returns == "_data"

\* A serialization that writes an optional key whether or not its field is set.
include_always(fields, key, value) == fields @@ (key :> value)

\* PostData.to_dict: if self.<field>: data["<key>"] = self.<field>
include_if_set(fields, key, value) ==
    IF Truthy(value) THEN fields @@ (key :> value) ELSE fields

NumList(ids) == List([i \in DOMAIN ids |-> Num(ids[i])])

\* PostData.to_dict()
PostData_to_dict(d) ==
    Dict(include_if_set(
             include_if_set(
                 include_if_set(
                     include_if_set((k_title :> Str(d.title)) @@ (k_type :> Str(d.type))
                                      @@ (k_authorId :> Num(d.author_id))
                                      @@ (k_blocks :> List(d.blocks)),
                                    k_communityId, d.community_id),
                     k_originalPostId, d.original_post_id),
                 k_hashtagIds, NumList(d.hashtag_ids)),
             k_thumbnailUrl, d.thumbnail_url))

\* UserBuilder.with_email / with_random_email, with_name / with_random_name
with_email(d, email) == [d EXCEPT !.email = email]
with_name(d, name) == [d EXCEPT !.name = name]

\* UserBuilder.build on _data d: _data afterwards, which is what it returns.
UserBuilder_build(d, email, name) ==
    [d EXCEPT !.email = IF d.email = "" THEN email ELSE d.email,
              !.name = IF d.name = "" THEN name ELSE d.name]

\* CommentBuilder.with_content / with_random_content
comment_with_content(d, content) == [d EXCEPT !.content = content]

\* CommentBuilder.build on _data d: _data afterwards, which is what it returns.
CommentBuilder_build(d, sentence) ==
    IF d.content = "" THEN comment_with_content(d, sentence) ELSE d

\* create_quick_post(author_id, blocks_count): PostBuilder().with_author(author_id)
\*     .with_random_title().add_random_text_blocks(blocks_count).build()
create_quick_post(author_id, blocks_count, sentence, paragraph) ==
    PostBuilder_build(
        add_random_text_blocks(
            with_random_title(with_author(PostBuilder_init, author_id), sentence),
            blocks_count, paragraph),
        sentence, paragraph)

(***************************************************************************)
(* SpecBuilder: a test constructs one builder and calls its methods, or    *)
(* calls the quick factory.                                                *)
(***************************************************************************)
AuthorIds == {1}
CommunityIds == {5}
PostIds == {9}
Titles == {"My Post"}
Contents == {"Hello World"}
YChoices == {None, Num(0), Num(250)}
Counts == 0..2
HashtagChoices == {<<>>, <<3>>}
QuickAuthorIds == {1, 7}

\* PostBuilder()
NewPostBuilder ==
    /\ subject = "none"
    /\ subject' = "post"
    /\ post_builder' = PostBuilder_init
    /\ UNCHANGED <<block_builder, returned, block_built, adds, calls, quick, user_builder,
                   comment_builder, workerVars,
                   sessionVars, hookVars, waitVars>>

\* BlockBuilder()
NewBlockBuilder ==
    /\ subject = "none"
    /\ subject' = "block"
    /\ block_builder' = BlockBuilder_init
    /\ UNCHANGED <<post_builder, returned, block_built, adds, calls, quick, user_builder,
                   comment_builder, workerVars,
                   sessionVars, hookVars, waitVars>>

\* The PostBuilder method `name` was called (with this y, if it takes one) and left
\* _data as d; every block it appended is noted with the call that added it.
PostCalled(name, y, d) ==
    /\ subject = "post"
    /\ Len(calls) < MaxCalls
    /\ calls' = Append(calls, name)
    /\ post_builder' = d
    /\ adds' = adds \o [i \in 1..(Len(d.blocks) - Len(adds)) |-> [op |-> name, y |-> y]]
    /\ UNCHANGED <<subject, block_builder, block_built, quick, user_builder,
                   comment_builder, workerVars, sessionVars,
                   hookVars, waitVars>>

WithAuthor ==
    /\ \E id \in AuthorIds : PostCalled("with_author", None, with_author(post_builder, id))
    /\ UNCHANGED returned

WithTitle ==
    /\ \E title \in Titles : PostCalled("with_title", None, with_title(post_builder, title))
    /\ UNCHANGED returned

WithRandomTitle ==
    /\ \E sentence \in Sentences :
          PostCalled("with_random_title", None, with_random_title(post_builder, sentence))
    /\ UNCHANGED returned

AsPersonal ==
    /\ PostCalled("as_personal", None, as_personal(post_builder))
    /\ UNCHANGED returned

AsCommunity ==
    /\ \E id \in CommunityIds :
          PostCalled("as_community", None, as_community(post_builder, id))
    /\ UNCHANGED returned

AsRepost ==
    /\ \E id \in PostIds : PostCalled("as_repost", None, as_repost(post_builder, id))
    /\ UNCHANGED returned

\* add_block with a block the caller built: a quote placed by hand.
AddBlock ==
    /\ \E paragraph \in Paragraphs, image_url \in ImageUrls :
          PostCalled("add_block", None,
                     add_block(post_builder,
                               new_block("QUOTE", "To be or not to be", 40, 100, paragraph,
                                         image_url)))
    /\ UNCHANGED returned

AddTextBlock ==
    /\ \E content \in Contents, y \in YChoices, paragraph \in Paragraphs,
          image_url \in ImageUrls :
          PostCalled("add_text_block", y,
                     add_text_block(post_builder, content, y, paragraph, image_url))
    /\ UNCHANGED returned

AddImageBlock ==
    /\ \E content \in ImageUrls, y \in YChoices, paragraph \in Paragraphs,
          image_url \in ImageUrls :
          PostCalled("add_image_block", y,
                     add_image_block(post_builder, content, y, paragraph, image_url))
    /\ UNCHANGED returned

AddRandomTextBlocks ==
    /\ \E count \in Counts, paragraph \in Paragraphs :
          PostCalled("add_random_text_blocks", None,
                     add_random_text_blocks(post_builder, count, paragraph))
    /\ UNCHANGED returned

WithHashtags ==
    /\ \E ids \in HashtagChoices :
          PostCalled("with_hashtags", None, with_hashtags(post_builder, ids))
    /\ UNCHANGED returned

WithThumbnail ==
    /\ \E url \in ImageUrls : PostCalled("with_thumbnail", None, with_thumbnail(post_builder, url))
    /\ UNCHANGED returned

\* build() left _data as d and returned it; the first value handed out is kept to
\* compare with.
Built(d) ==
    /\ PostCalled("build", None, d)
    /\ returned' = IF returned.ref = "none" THEN [ref |-> build_returns, first |-> d]
                   ELSE returned

Build ==
    \E sentence \in Sentences, paragraph \in Paragraphs :
        Built(PostBuilder_build(post_builder, sentence, paragraph))

\* A BlockBuilder method was called and left _data as b.
BlockCalled(name, b) ==
    /\ subject = "block"
    /\ Len(calls) < MaxCalls
    /\ calls' = Append(calls, name)
    /\ block_builder' = b
    /\ UNCHANGED <<subject, post_builder, returned, adds, quick, user_builder,
                   comment_builder, workerVars, sessionVars,
                   hookVars, waitVars>>

BlockAsText == BlockCalled("as_text", as_type(block_builder, "TEXT")) /\ UNCHANGED block_built
BlockAsImage == BlockCalled("as_image", as_type(block_builder, "IMAGE")) /\ UNCHANGED block_built
BlockAsCode == BlockCalled("as_code", as_type(block_builder, "CODE")) /\ UNCHANGED block_built
BlockAsQuote == BlockCalled("as_quote", as_type(block_builder, "QUOTE")) /\ UNCHANGED block_built

BlockWithContent ==
    /\ \E content \in Contents \cup {""} :
          BlockCalled("with_content", with_content(block_builder, content))
    /\ UNCHANGED block_built

BlockWithRandomText ==
    /\ \E paragraph \in Paragraphs :
          BlockCalled("with_random_text", with_content(block_builder, paragraph))
    /\ UNCHANGED block_built

BlockWithRandomImageUrl ==
    /\ \E image_url \in ImageUrls :
          BlockCalled("with_random_image_url", with_content(block_builder, image_url))
    /\ UNCHANGED block_built

BlockAtPosition ==
    /\ \E x \in {0, 6}, y \in {0, 250} :
          BlockCalled("at_position", at_position(block_builder, x, y))
    /\ UNCHANGED block_built

BlockWithSize ==
    /\ \E height \in {100, 200} : BlockCalled("with_size", with_size(block_builder, 12, height))
    /\ UNCHANGED block_built

\* BlockBuilder.build() left _data as b and returned b.to_dict().
BlockBuilt(b) ==
    /\ BlockCalled("build", b)
    /\ block_built' = [built |-> TRUE, filled |-> block_builder.content = "",
                       block |-> BlockData_to_dict(b)]

BlockBuild ==
    \E paragraph \in Paragraphs, image_url \in ImageUrls :
        BlockBuilt(BlockBuilder_build(block_builder, paragraph, image_url))

\* create_quick_post(author_id, blocks_count) returned d.
CreateQuickPost ==
    /\ subject = "none"
    /\ subject' = "quick"
    /\ \E author_id \in QuickAuthorIds, blocks_count \in Counts, sentence \in Sentences,
          paragraph \in Paragraphs :
          quick' = [called |-> TRUE, author_id |-> author_id, blocks_count |-> blocks_count,
                    post |-> create_quick_post(author_id, blocks_count, sentence,
                                               paragraph)]
    /\ UNCHANGED <<post_builder, block_builder, returned, block_built, adds, calls,
                   user_builder, comment_builder, workerVars, sessionVars, hookVars,
                   waitVars>>

\* fake.email(), fake.name()
Emails == {"jane@example.org"}
Names == {"Jane Doe"}

\* UserBuilder()
NewUserBuilder ==
    /\ subject = "none"
    /\ subject' = "user"
    /\ user_builder' = UserBuilder_init
    /\ UNCHANGED <<post_builder, block_builder, returned, block_built, adds, calls, quick,
                   comment_builder, workerVars, sessionVars, hookVars, waitVars>>

\* A UserBuilder method was called and left _data as d.
UserCalled(name, d) ==
    /\ subject = "user"
    /\ Len(calls) < MaxCalls
    /\ calls' = Append(calls, name)
    /\ user_builder' = d
    /\ UNCHANGED <<subject, post_builder, block_builder, returned, block_built, adds, quick,
                   comment_builder, workerVars, sessionVars, hookVars, waitVars>>

UserWithEmail ==
    \E email \in Emails \cup {"", "fixed@example.org"} :
        UserCalled("with_email", with_email(user_builder, email))

UserWithName ==
    \E name \in Names \cup {"", "John Doe"} :
        UserCalled("with_name", with_name(user_builder, name))

UserBuild ==
    \E email \in Emails, name \in Names :
        UserCalled("build", UserBuilder_build(user_builder, email, name))

\* CommentBuilder()
NewCommentBuilder ==
    /\ subject = "none"
    /\ subject' = "comment"
    /\ comment_builder' = CommentBuilder_init
    /\ UNCHANGED <<post_builder, block_builder, returned, block_built, adds, calls, quick,
                   user_builder, workerVars, sessionVars, hookVars, waitVars>>

\* A CommentBuilder method was called and left _data as d.
CommentCalled(name, d) ==
    /\ subject = "comment"
    /\ Len(calls) < MaxCalls
    /\ calls' = Append(calls, name)
    /\ comment_builder' = d
    /\ UNCHANGED <<subject, post_builder, block_builder, returned, block_built, adds, quick,
                   user_builder, workerVars, sessionVars, hookVars, waitVars>>

CommentWithContent ==
    \E content \in Contents \cup Sentences \cup {""} :
        CommentCalled("with_content", comment_with_content(comment_builder, content))

CommentBuild ==
    \E sentence \in Sentences :
        CommentCalled("build", CommentBuilder_build(comment_builder, sentence))

NextBuilder ==
    \/ NewPostBuilder
    \/ NewBlockBuilder
    \/ WithAuthor
    \/ WithTitle
    \/ WithRandomTitle
    \/ AsPersonal
    \/ AsCommunity
    \/ AsRepost
    \/ AddBlock
    \/ AddTextBlock
    \/ AddImageBlock
    \/ AddRandomTextBlocks
    \/ WithHashtags
    \/ WithThumbnail
    \/ Build
    \/ BlockAsText
    \/ BlockAsImage
    \/ BlockAsCode
    \/ BlockAsQuote
    \/ BlockWithContent
    \/ BlockWithRandomText
    \/ BlockWithRandomImageUrl
    \/ BlockAtPosition
    \/ BlockWithSize
    \/ BlockBuild
    \/ CreateQuickPost
    \/ NewUserBuilder
    \/ UserWithEmail
    \/ UserWithName
    \/ UserBuild
    \/ NewCommentBuilder
    \/ CommentWithContent
    \/ CommentBuild

InitBuilder == Init /\ creds.email # "" /\ creds.password # ""

SpecBuilder == InitBuilder /\ [][NextBuilder]_vars

(***************************************************************************)
(* Claims about the builders (checked under SpecBuilder).                  *)
(***************************************************************************)
HasBuilt == returned.ref # "none"

\* C15: after any sequence of PostBuilder calls, the PostData build() returns has at
\* least one block.
C15_BuiltPostHasBlocks ==
    HasBuilt => (Len(returned.first.blocks) >= 1 /\ Len(post_builder.blocks) >= 1)

\* add_random_text_blocks(0), then build(): the one block is the one build() added.
C15_Witness ==
    /\ calls = <<"add_random_text_blocks", "build">>
    /\ Len(returned.first.blocks) = 1
    /\ adds[1].op = "build"

\* C16: the PostData build() returns has community_id set exactly when its type is
\* COMMUNITY and original_post_id set exactly when its type is REPOST.
C16_IdsMatchType ==
    HasBuilt =>
        /\ (returned.first.community_id # None) <=> (returned.first.type = "COMMUNITY")
        /\ (returned.first.original_post_id # None) <=> (returned.first.type = "REPOST")

\* C17: a block built with its content left unset has non-empty content generated
\* according to its type.
C17_GeneratedContent ==
    (block_built.built /\ block_built.filled) =>
        /\ block_built.block.v[k_content] # Str("")
        /\ block_built.block.v[k_type] = Str("TEXT") =>
              block_built.block.v[k_content].v \in Paragraphs
        /\ block_built.block.v[k_type] = Str("IMAGE") =>
              block_built.block.v[k_content].v \in ImageUrls
        /\ block_built.block.v[k_type] = Str("CODE") =>
              block_built.block.v[k_content].v = CODE_SNIPPET

\* to_dict() of the builder's PostData as it stands.
Serialized == PostData_to_dict(post_builder).v

\* C18: to_dict() holds communityId, originalPostId, hashtagIds or thumbnailUrl only
\* when the field is set, maps no key to null, and always holds title, type,
\* authorId and blocks.
C18_ToDictOmitsUnset ==
    subject = "post" =>
        /\ k_communityId \in DOMAIN Serialized => post_builder.community_id # None
        /\ k_originalPostId \in DOMAIN Serialized => post_builder.original_post_id # None
        /\ k_hashtagIds \in DOMAIN Serialized => post_builder.hashtag_ids # <<>>
        /\ k_thumbnailUrl \in DOMAIN Serialized => post_builder.thumbnail_url # None
        /\ \A k \in DOMAIN Serialized : Serialized[k] # None
        /\ {k_title, k_type, k_authorId, k_blocks} \subseteq DOMAIN Serialized

\* A built community post with hashtags and no thumbnail.
C18_Witness ==
    /\ HasBuilt
    /\ post_builder.community_id # None
    /\ post_builder.hashtag_ids # <<>>
    /\ post_builder.thumbnail_url = None
    /\ k_communityId \in DOMAIN Serialized
    /\ k_hashtagIds \in DOMAIN Serialized
    /\ k_thumbnailUrl \notin DOMAIN Serialized
    /\ k_originalPostId \notin DOMAIN Serialized

\* The value the caller of build() holds now: the object it was handed.
ReturnedValue == IF returned.ref = "_data" THEN post_builder ELSE returned.first

\* C19: once build() has returned a value, no later call on the builder changes it.
C19_ReturnedValueUnchanged == HasBuilt => ReturnedValue = returned.first

PositionedAdds == {"add_text_block", "add_image_block", "add_random_text_blocks"}

\* C20: a block added by add_text_block, add_image_block or add_random_text_blocks
\* has x = 0, and y = 100 * the number of blocks before it when no y was given, the
\* given y (0 included) otherwise.
C20_BlockPosition ==
    /\ Len(adds) = Len(post_builder.blocks)
    /\ \A i \in DOMAIN adds :
          adds[i].op \in PositionedAdds =>
              /\ post_builder.blocks[i].v[k_x] = Num(0)
              /\ post_builder.blocks[i].v[k_y] =
                    Num(IF adds[i].y = None THEN 100 * (i - 1) ELSE adds[i].y.v)

\* A block added by hand, a text block at an explicit y of 0, then an image block
\* without y: it lands at 200.
C20_Witness ==
    /\ calls = <<"add_block", "add_text_block", "add_image_block">>
    /\ adds[2].y = Num(0)
    /\ post_builder.blocks[2].v[k_y] = Num(0)
    /\ adds[3].y = None
    /\ post_builder.blocks[3].v[k_y] = Num(200)

\* Every block of the post was added by add_text_block, add_image_block or
\* add_random_text_blocks, none with an explicit y.
StackedOnly ==
    /\ Len(adds) = Len(post_builder.blocks)
    /\ \A i \in DOMAIN adds : adds[i].op \in PositionedAdds /\ adds[i].y = None

\* C25: in a post assembled only through add_text_block, add_image_block and
\* add_random_text_blocks without explicit y, every block lies below all blocks added
\* before it: later.y >= earlier.y + earlier.height.
C25_BlocksStackBelow ==
    StackedOnly =>
        \A e \in DOMAIN post_builder.blocks, b \in DOMAIN post_builder.blocks :
            e < b =>
                post_builder.blocks[b].v[k_y].v >=
                    post_builder.blocks[e].v[k_y].v + post_builder.blocks[e].v[k_height].v

\* The last call on the builder was build(); build() was called again with no
\* configuration call since the first build().
LastBuild == calls # <<>> /\ calls[Len(calls)] = "build"
BuiltTwice ==
    \E i \in DOMAIN calls :
        /\ i < Len(calls)
        /\ \A j \in 1..(i - 1) : calls[j] # "build"
        /\ \A j \in i..Len(calls) : calls[j] = "build"

\* What the generators may give a second build(): other values than the first got.
NextSentences == Sentences \cup {"Another sentence of six words here."}
NextParagraphs == Paragraphs \cup {"Another paragraph."}
NextImageUrls == ImageUrls \cup {"https://picsum.photos/200/300"}
NextEmails == Emails \cup {"other@example.org"}
NextNames == Names \cup {"Other Name"}

\* C28: build() is idempotent on every builder: with no configuration call in
\* between, a second build() returns a value equal to the first, whatever the
\* generators would give; it appends no block and regenerates no title, email, name
\* or content.
C28_BuildIdempotent ==
    LastBuild =>
        /\ subject = "post" =>
              /\ \A sentence \in NextSentences, paragraph \in NextParagraphs :
                    PostBuilder_build(post_builder, sentence, paragraph) = post_builder
              /\ BuiltTwice => post_builder = returned.first
        /\ subject = "block" =>
              \A paragraph \in NextParagraphs, image_url \in NextImageUrls :
                  BlockData_to_dict(BlockBuilder_build(block_builder, paragraph, image_url))
                      = block_built.block
        /\ subject = "user" =>
              \A email \in NextEmails, name \in NextNames :
                  UserBuilder_build(user_builder, email, name) = user_builder
        /\ subject = "comment" =>
              \A sentence \in NextSentences :
                  CommentBuilder_build(comment_builder, sentence) = comment_builder

\* An untouched PostBuilder was built twice in a row: one generated block, one title.
C28_Witness ==
    /\ subject = "post"
    /\ calls = <<"build", "build">>
    /\ Len(post_builder.blocks) = 1
    /\ post_builder.title # ""

\* The blocks list of to_dict() of the post create_quick_post returned.
QuickBlocks == PostData_to_dict(quick.post).v[k_blocks].v

\* C21: for every author id a and every blocks_count N >= 0, create_quick_post(a, N)
\* returns a PostData with author_id a, a non-empty title and exactly N serialized
\* blocks, each of type TEXT.
C21_QuickPost ==
    quick.called =>
        /\ quick.post.author_id = quick.author_id
        /\ quick.post.title # ""
        /\ Len(QuickBlocks) = quick.blocks_count
        /\ \A i \in DOMAIN QuickBlocks : QuickBlocks[i].v[k_type] = Str("TEXT")

(***************************************************************************)
(* pytest_runtest_makereport (tests/conftest.py), a hook wrapper pytest     *)
(* calls after each phase of a test with the report the phase produced.    *)
(* h is the call as it stands (HookCall).  The page and the file system    *)
(* are external: `shot` is how page.screenshot ended, `video` how the      *)
(* lookup and the rename of the recording ended.                           *)
(***************************************************************************)
\* settings.get_current_timestamp() (config/settings.py)
get_current_timestamp == "20240101_120000"

\* item.nodeid.replace("::", "_").replace("/", "_").replace(" ", "_")
TEST_NAME == "tests_test_posts.py_TestPosts_test_create"

\* A screenshot handler that lets the exception out of the hook: pytest then has no
\* report of the failure to show, only the hook's own error.
makereport_screenshot_except_raises(h, e) ==
    [h EXCEPT !.raised = e, !.step_raised = e,
              !.report = TestReport(h.made.when, "internal_error", e)]

\* except Exception as e: logger.warning(f"Could not capture screenshot: {e}")
makereport_screenshot_except(h, e) ==
    [h EXCEPT !.step_raised = e,
              !.log = Append(h.log, LogLine("WARNING", "Could not capture screenshot:",
                                            <<Str(e)>>))]

\* try: page.screenshot(path=screenshot_path, full_page=True); logger.error(...);
\*      item._test_name_for_video = f"FAILED_{test_name}_{timestamp}"
makereport_screenshot(h, shot, test_name, timestamp) ==
    IF shot = "saved"
    THEN [h EXCEPT !.files = h.files \cup {<<"screenshots", "FAILED", test_name, timestamp, "png">>},
                   !.log = Append(h.log, LogLine("ERROR", "Failure screenshot saved:",
                                                 <<Str(test_name), Str(timestamp)>>)),
                   !.video_name = <<"FAILED", test_name, timestamp>>]
    ELSE makereport_screenshot_except(h, shot)

\* if report.when == "call" and report.failed: page = item.funcargs.get('page');
\* if page: ...
makereport_call(h, has_page, shot, test_name, timestamp) ==
    IF h.made.when = "call" /\ h.made.outcome = "failed" /\ has_page
    THEN makereport_screenshot(h, shot, test_name, timestamp)
    ELSE h

\* except Exception as e: logger.debug(f"Could not rename video: {e}")
makereport_rename_except(h, e) ==
    [h EXCEPT !.step_raised = e,
              !.log = Append(h.log, LogLine("DEBUG", "Could not rename video:", <<Str(e)>>))]

\* prefix = getattr(item, '_test_name_for_video', None); the new name of the video
new_video_name(prefix, test_name, timestamp) ==
    IF prefix # <<>> THEN prefix \o <<"webm">> ELSE <<test_name, timestamp, "webm">>

\* try: video = page.video; if video: original_path = video.path(); ...
\*      if os.path.exists(original_path): os.rename(original_path, new_path)
makereport_rename(h, video, test_name, timestamp) ==
    CASE video \in {"no_video", "no_file"} -> h
      [] video = "renamed" ->
             [h EXCEPT !.files = h.files \cup {<<"logs", "videos">>
                                                  \o new_video_name(h.video_name, test_name,
                                                                    timestamp)},
                       !.log = Append(h.log, LogLine("INFO", "Video saved:",
                                                     <<Str(test_name), Str(timestamp)>>))]
      [] OTHER -> makereport_rename_except(h, video)

\* if report.when == "teardown": page = item.funcargs.get('page');
\* if page and settings.browser.RECORD_VIDEO: ...
makereport_teardown(h, has_page, record_video, video, test_name, timestamp) ==
    IF h.made.when = "teardown" /\ has_page /\ record_video
    THEN makereport_rename(h, video, test_name, timestamp)
    ELSE h

\* pytest_runtest_makereport(item, call): report = outcome.get_result(), then the
\* two blocks; prefix is the item's _test_name_for_video before the call.
pytest_runtest_makereport(report, prefix, has_page, record_video, shot, video) ==
    makereport_teardown(
        makereport_call(HookCall(report, prefix), has_page, shot, TEST_NAME,
                        get_current_timestamp),
        has_page, record_video, video, TEST_NAME, get_current_timestamp)

(***************************************************************************)
(* SpecReport: pytest runs test items and reports each phase through the   *)
(* hook.  The call phase runs only when the setup passed; the teardown     *)
(* phase always runs.                                                      *)
(***************************************************************************)
Failures == {"AssertionError: expected title", "TimeoutError: locator"}
PhaseOutcomes(when) ==
    {TestReport(when, "passed", "none")}
      \cup {TestReport(when, "failed", f) : f \in Failures}
      \cup (IF when = "teardown" THEN {} ELSE {TestReport(when, "skipped", "Skipped")})

\* page.screenshot: the file is written, or Playwright raises.
ScreenshotOutcomes == {"saved", "Error: Target page closed", "TimeoutError"}
\* page.video is None; the file is gone; os.rename succeeds; video.path() or
\* os.rename raises.
VideoOutcomes == {"no_video", "no_file", "renamed", "Error: Page is not closed", "OSError"}

\* pytest starts the next test item; whether it has a page fixture, and whether videos
\* are recorded, are the item's and the settings'.
ReportStart ==
    /\ hook_item.phase \in {"idle", "done"}
    /\ hook_item.n < MaxTests
    /\ \E has_page \in BOOLEAN, record_video \in BOOLEAN :
          hook_item' = [NoHookItem EXCEPT !.n = hook_item.n + 1, !.phase = "setup",
                                          !.has_page = has_page,
                                          !.record_video = record_video]
    /\ hook' = HookCall(NoReport, <<>>)
    /\ UNCHANGED <<artifacts, workerVars, sessionVars, builderVars, waitVars>>

\* The hook was called for a phase and ended as h.
Reported(h) ==
    /\ hook' = h
    /\ artifacts' = artifacts \cup h.files
    /\ UNCHANGED <<workerVars, sessionVars, builderVars, waitVars>>

\* The hook is called with the report of the setup phase.
ReportSetup ==
    /\ hook_item.phase = "setup"
    /\ \E report \in PhaseOutcomes("setup"), shot \in ScreenshotOutcomes,
          video \in VideoOutcomes :
          /\ Reported(pytest_runtest_makereport(report, hook_item.video_name,
                                                hook_item.has_page, hook_item.record_video,
                                                shot, video))
          /\ hook_item' = [hook_item EXCEPT
                               !.phase = IF report.outcome = "passed" THEN "call"
                                         ELSE "teardown"]

\* The hook is called with the report of the call phase.
ReportCall ==
    /\ hook_item.phase = "call"
    /\ \E report \in PhaseOutcomes("call"), shot \in ScreenshotOutcomes,
          video \in VideoOutcomes :
          /\ Reported(pytest_runtest_makereport(report, hook_item.video_name,
                                                hook_item.has_page, hook_item.record_video,
                                                shot, video))
          /\ hook_item' = [hook_item EXCEPT !.phase = "teardown", !.call = report,
                                            !.kept_call = hook'.report,
                                            !.video_name = hook'.video_name]

\* The hook is called with the report of the teardown phase.
ReportTeardown ==
    /\ hook_item.phase = "teardown"
    /\ \E report \in PhaseOutcomes("teardown"), shot \in ScreenshotOutcomes,
          video \in VideoOutcomes :
          /\ Reported(pytest_runtest_makereport(report, hook_item.video_name,
                                                hook_item.has_page, hook_item.record_video,
                                                shot, video))
          /\ hook_item' = [hook_item EXCEPT !.phase = "done"]

NextReport == ReportStart \/ ReportSetup \/ ReportCall \/ ReportTeardown

InitReport == Init /\ creds.email # "" /\ creds.password # ""

SpecReport == InitReport /\ [][NextReport]_vars

(***************************************************************************)
(* Claims about the failure-observation hook (checked under SpecReport).   *)
(***************************************************************************)
CallFailed == hook_item.call.outcome = "failed"
StepLines == {i \in DOMAIN hook.log : hook.log[i].level \in {"WARNING", "DEBUG"}}

\* C23: when a test failed in its call phase, every call of the hook from then on
\* returns without raising and leaves the report it was given as it was, so the
\* test's call report is still the original failure, whether the screenshot and the
\* video rename succeeded or raised; an exception of either step leaves exactly one
\* log entry, which names it, and no file.
C23_FailureReportUnaltered ==
    CallFailed =>
        /\ hook.raised = "none"
        /\ hook.report = hook.made
        /\ hook_item.kept_call = hook_item.call
        /\ hook.step_raised # "none" =>
              /\ Len(hook.log) = 1
              /\ StepLines = {1}
              /\ hook.log[1].msg[2] = Str(hook.step_raised)
              /\ hook.files = {}

\* A test with a page failed in its call phase, the screenshot raised, and in the
\* teardown phase the rename of the video raised too.
C23_Witness ==
    /\ CallFailed
    /\ hook_item.phase = "done"
    /\ hook_item.has_page
    /\ hook_item.video_name = <<>>
    /\ hook.made.when = "teardown"
    /\ hook.step_raised = "OSError"

(***************************************************************************)
(* The boolean wait helpers: BasePage.is_visible_slow (core/base_page.py), *)
(* LoginPage.is_error_visible and LoginPage.wait_for_redirect_after_login  *)
(* (pages/login_page.py).  Playwright's waits are external: a wait ends    *)
(* "met" when its condition comes true within the timeout, with            *)
(* TimeoutError when the timeout expires first, with Error when the page   *)
(* is gone.  w is the call as it stands (Waited).                          *)
(***************************************************************************)
TARGET_CLOSED == "Error: Target page, context or browser has been closed"

\* return True
return_true(w) == [w EXCEPT !.returned = TRUE, !.ret = TRUE]

\* A handler that answers False to a timeout only and lets any other error out.
is_visible_slow_except_timeout_only(w, e) ==
    IF e = "TimeoutError" THEN [w EXCEPT !.returned = TRUE, !.ret = FALSE]
    ELSE [w EXCEPT !.raised = e]

\* except Exception: return False
is_visible_slow_except(w, e) == [w EXCEPT !.returned = TRUE, !.ret = FALSE]

\* BasePage.is_visible_slow(locator, timeout): try: locator.wait_for(state="visible",
\* timeout=timeout); return True
is_visible_slow(timeout, wait_ended) ==
    IF wait_ended = "met"
    THEN return_true(Waited("is_visible_slow", timeout, wait_ended))
    ELSE is_visible_slow_except(Waited("is_visible_slow", timeout, wait_ended), wait_ended)

\* LoginPage.is_error_visible: except Exception: return False
is_error_visible_except(w, e) == [w EXCEPT !.returned = TRUE, !.ret = FALSE]

\* LoginPage.is_error_visible(timeout): try: error_msg.first.wait_for(state="visible",
\* timeout=timeout); return True
is_error_visible(timeout, wait_ended) ==
    IF wait_ended = "met"
    THEN return_true(Waited("is_error_visible", timeout, wait_ended))
    ELSE is_error_visible_except(Waited("is_error_visible", timeout, wait_ended),
                                 wait_ended)

\* except Exception: logger.warning("Still on login page after timeout"); return False
wait_for_redirect_except(w, e) ==
    [w EXCEPT !.returned = TRUE, !.ret = FALSE,
              !.log = Append(w.log, LogLine("WARNING", "Still on login page after timeout",
                                            <<>>))]

\* LoginPage.wait_for_redirect_after_login(timeout): try: self.page.wait_for_url(
\* lambda url: "/login" not in url.lower(), timeout=timeout); logger.info(...);
\* return True
wait_for_redirect_after_login(timeout, wait_ended) ==
    IF wait_ended = "met"
    THEN return_true([Waited("wait_for_redirect_after_login", timeout, wait_ended)
                          EXCEPT !.log = <<LogLine("INFO", "Login successful", <<>>)>>])
    ELSE wait_for_redirect_except(
             Waited("wait_for_redirect_after_login", timeout, wait_ended), wait_ended)

(***************************************************************************)
(* SpecWait: a test submits the login form; the application shows its      *)
(* error toast, or leaves /login, at some time or never; the test calls    *)
(* the helpers, and each wait takes the time it takes.                     *)
(***************************************************************************)
\* The defaults of the three helpers, in milliseconds.
Timeouts == {3000, 5000, 10000}
\* When a condition comes true, in milliseconds after the submit; -1: never.
Moments == {-1, 0, 2000, 4000, 8000}

\* How a wait for a condition that comes true at `at` can end when it starts at
\* `now`: at the very moment the timeout expires, either way.
WaitEnds(page, at, now, timeout) ==
    IF page.closed THEN {TARGET_CLOSED}
    ELSE IF at = -1 \/ at - now > timeout THEN {"TimeoutError"}
    ELSE IF at - now = timeout THEN {"met", "TimeoutError"}
    ELSE {"met"}

\* The time the wait took.
WaitTook(wait_ended, at, now, timeout) ==
    CASE wait_ended = "met" -> IF at > now THEN at - now ELSE 0
      [] wait_ended = "TimeoutError" -> timeout
      [] OTHER -> 0

\* The test opens the login page and submits the form.
SubmitLogin ==
    /\ ~ui.opened
    /\ \E toast_at \in Moments, redirect_at \in Moments :
          ui' = [opened |-> TRUE, closed |-> FALSE, toast_at |-> toast_at,
                 redirect_at |-> redirect_at]
    /\ UNCHANGED <<clock, waited, workerVars, sessionVars, builderVars, hookVars>>

\* The page is closed under the test (the browser crashed, or the test closed it).
ClosePage ==
    /\ ui.opened
    /\ ~ui.closed
    /\ ui' = [ui EXCEPT !.closed = TRUE]
    /\ UNCHANGED <<clock, waited, workerVars, sessionVars, builderVars, hookVars>>

\* A helper was called; its wait ended as wait_ended and the helper as w.
HelperCalled(w, at) ==
    /\ ui.opened
    /\ clock < MaxClock
    /\ waited' = w
    /\ clock' = clock + WaitTook(w.wait, at, clock, w.timeout)
    /\ UNCHANGED <<ui, workerVars, sessionVars, builderVars, hookVars>>

IsVisibleSlow ==
    \E timeout \in Timeouts, at \in {ui.toast_at} :
        \E wait_ended \in WaitEnds(ui, at, clock, timeout) :
            HelperCalled(is_visible_slow(timeout, wait_ended), at)

IsErrorVisible ==
    \E timeout \in Timeouts, at \in {ui.toast_at} :
        \E wait_ended \in WaitEnds(ui, at, clock, timeout) :
            HelperCalled(is_error_visible(timeout, wait_ended), at)

WaitForRedirectAfterLogin ==
    \E timeout \in Timeouts, at \in {ui.redirect_at} :
        \E wait_ended \in WaitEnds(ui, at, clock, timeout) :
            HelperCalled(wait_for_redirect_after_login(timeout, wait_ended), at)

NextWait ==
    \/ SubmitLogin
    \/ ClosePage
    \/ IsVisibleSlow
    \/ IsErrorVisible
    \/ WaitForRedirectAfterLogin

InitWait == Init /\ creds.email # "" /\ creds.password # ""

SpecWait == InitWait /\ [][NextWait]_vars

(***************************************************************************)
(* Claims about the wait helpers (checked under SpecWait).                  *)
(***************************************************************************)
BooleanHelpers == {"is_visible_slow", "is_error_visible", "wait_for_redirect_after_login"}

\* C30: is_visible_slow, is_error_visible and wait_for_redirect_after_login never
\* raise: each returns True when its condition was met within the timeout and False
\* when the wait expired.
C30_WaitHelpersNeverRaise ==
    waited.helper \in BooleanHelpers =>
        /\ waited.raised = "none"
        /\ waited.returned
        /\ waited.wait = "met" => waited.ret = TRUE
        /\ waited.wait = "TimeoutError" => waited.ret = FALSE

\* is_visible_slow was called on a page that had been closed: Playwright raised an
\* error that is not a timeout.
C30_Witness ==
    /\ waited.helper = "is_visible_slow"
    /\ ui.closed
    /\ waited.wait = TARGET_CLOSED
    /\ waited.returned
    /\ waited.ret = FALSE

(***************************************************************************)
(* Further claims about the client and the fixtures (checked under Spec).  *)
(***************************************************************************)
\* C22: clear_session is idempotent: in the state one call of clear_session leaves,
\* a second call in a row changes neither the cookie jar nor the default headers.
C22_ClearSessionIdempotent ==
    lastOp = Op("clear_session", "returned") =>
        /\ clear_session(State.cl).cookies = cookies
        /\ clear_session(State.cl).headers = headers

\* A test body called clear_session twice on a client that holds an Authorization
\* header: the header is still there, the jar is empty.
C22_Witness ==
    /\ pc = "call"
    /\ bodyOps = 2
    /\ lastOp = Op("clear_session", "returned")
    /\ HasAuthorization(headers)
    /\ cookies = {}

\* This step is a call of Auth.login (by a fixture's setup or by a test body) that
\* returned an envelope.
LoginReturned ==
    /\ lastOp' = Op("login", "returned")
    /\ bodyOps' = bodyOps + 1 \/ testsRun' = testsRun + 1
    /\ lastCall'.endpoint = "auth/login"
    /\ lastCall'.ret = "envelope"

\* That login installed no token: success = FALSE, or no accessToken in the body.
NoTokenInstalled == ~lastCall'.envelope.success \/ ~Truthy(TokenOfLastCall')

\* C26: a call of Auth.login that installs no token, because the envelope has
\* success = FALSE or because the successful body carries no accessToken, leaves the
\* default headers exactly as they were, an earlier login's Authorization included.
C26_FailedLoginKeepsHeaders ==
    [][(LoginReturned /\ NoTokenInstalled) => headers' = headers]_vars

\* A test body's login was refused (401) on a client that holds the Authorization
\* header of the fixture's login.
C26_Witness ==
    /\ lastOp = Op("login", "returned")
    /\ bodyOps > 0
    /\ lastCall.envelope.status_code = 401
    /\ ~lastCall.envelope.success
    /\ HasAuthorization(headers)

\* The teardown of api_as_user or existing_user_api has run: the fixture had yielded
\* the client to this test, and the test has ended.
LoginTeardownRan == pc = "ended" /\ fx \in LoginFinalizers /\ handed.kind = "api"

\* C27: in the teardown of api_as_user and existing_user_api, clear_session runs
\* after the logout call on every path: after the teardown the client's cookie jar
\* is empty, also when the logout request raised a transport exception.
C27_TeardownAlwaysClears ==
    LoginTeardownRan =>
        /\ lastOp = Op("clear_session", "returned")
        /\ cookies = {}

\* The record test_post handed over, and the create_post call that made it.
SeededPost == handed.posts[1]
PostHanded == fx = "test_post" /\ handed.kind = "post" /\ lastOp.op = "create_post"

\* What a server that stores posts as submitted answers to get_post(id): the post
\* it stored under the id of its create response, None when there is none.
get_post_faithful(id) ==
    IF id # None /\ id = Get(data_of(lastCall.envelope), k_id, None)
    THEN [id |-> id, title |-> lastCall.sent.v[k_title].v]
    ELSE [id |-> None, title |-> ""]

\* C24: the record test_post hands to a test has the title of the payload sent to
\* create_post, the logged-in user's id as author_id and the id of the create
\* response; when the response carries an id, a server that stores posts as
\* submitted answers get_post(record.id) with that id and the submitted title.
C24_RecordMatchesSubmission ==
    PostHanded =>
        /\ lastCall.endpoint = "blog-posts"
        /\ SeededPost.title = lastCall.sent.v[k_title].v
        /\ SeededPost.author_id = test_user
        /\ SeededPost.author_id = lastCall.sent.v[k_authorId]
        /\ SeededPost.id = Get(data_of(lastCall.envelope), k_id, None)
        /\ SeededPost.id # None =>
              /\ get_post_faithful(SeededPost.id).id = SeededPost.id
              /\ get_post_faithful(SeededPost.id).title = SeededPost.title

\* test_post created post 7 as user 1 and handed its record to the test.
C24_Witness ==
    /\ PostHanded
    /\ pc = "call"
    /\ lastCall.envelope.status_code = 201
    /\ SeededPost.id = Num(7)
    /\ SeededPost.author_id = Num(1)
    /\ SeededPost.title = TITLE

====
